---- MODULE Spec2Model ----
(***************************************************************************)
(* Model of scripts.js of aemsites/tech-council: the query-driven text     *)
(* highlighter highlightFromQuery(root) working on a DOM subtree.          *)
(*                                                                         *)
(* The DOM is a table of nodes (identity = index), each with a parent      *)
(* link and an ordered child list.  Strings are sequences of one-character *)
(* strings, indices are 0-based as in JavaScript.                          *)
(***************************************************************************)
EXTENDS Integers, Sequences, FiniteSets, TLC

VARIABLES
  node,         \* the document: node[id] = the DOM node with that identity
  search,       \* value of the `highlight` query parameter (NULL = absent)
  hash,         \* TRUE iff window.location.hash is non-empty
  pc,           \* position of highlightFromQuery
  term,         \* local `term` after line 29
  regex,        \* local `regex` (compiled pattern: a sequence of atoms)
  currentNode,  \* walker.currentNode
  fragment,     \* local `fragment` (id of the DocumentFragment, or NULL)
  highlights,   \* local `highlights` (ids of the spans created by this call)
  scrollCalls,  \* ids that received scrollIntoView during this call
  warned,       \* TRUE iff this call logged console.warn('Highlighting failed:')
  propagated,   \* TRUE iff an exception has left highlightFromQuery
  traversed,    \* TRUE iff the while loop of line 61 ran to its end in this call
  pre,          \* the document as it was when this call started
  callsLeft,    \* how many more times highlightFromQuery will be called
  prev,         \* the term of the previous call if that call ran to its end
                \* without an exception, << >> otherwise
  \* loadPage (scripts.js)
  phase,        \* position of loadPage / loadEager / loadLazy
  firstSection, \* the promise of loadSection(first section): idle/pending/done
  sections,     \* the promise of loadSections(main): idle/pending/done
  called,       \* the loaders called so far, in call order
  \* debounce (blocks/recordings)
  timers,       \* the pending timers of the window: [id, args, remaining]
  timeoutId,    \* closure variable `timeoutId` of debounce (NULL: undefined)
  callCount,    \* observed: calls of the debounced function so far
  sinceCall,    \* observed: time since the last such call, up to Ms
  lastArgs,     \* observed: the arguments of the last such call
  bursts,       \* observed: calls that found no timer pending
  runs,         \* observed: the executions of fn, in order
  \* blocks/recordings with sidebar
  recordingsData,         \* block.recordingsData
  recordingsSearchQuery,  \* block.recordingsSearchQuery
  recordingsSortBy,       \* block.recordingsSortBy
  recordingsDateRange,    \* block.recordingsDateRange
  recordingsSelectedTags, \* block.recordingsSelectedTags
  searchValue,  \* search.value of the search input
  sortValue,    \* sortSelect.value
  radioValue,   \* value of the checked date-range radio
  checked,      \* values of the checked tag checkboxes
  rendered,     \* the rows shown in .recordings-list, in order
  \* blocks/events
  evNow,          \* what new Date() returns, in hours since the epoch
  evRows,         \* the authored rows of the block
  evPc,           \* position of decorate: start / await / done / failed
  allEvents,      \* local `allEvents` of decorate
  filteredEvents, \* what filterEvents(allEvents) returned
  evBlock,        \* what the block holds: rows / empty-message / carousel
  evCards,        \* ids of the cards in the carousel, in order
  slideCount,     \* number of .events-carousel-slide elements
  currentSlide,   \* block.dataset.currentSlide (a string), << >> if unset
  atStart,        \* block has class at-start
  atEnd,          \* block has class at-end
  evBound,        \* bindCarouselEvents has run
  scrollLeft,     \* container.scrollLeft
  scrollTarget,   \* the left of the last container.scrollTo
  scrollTimeout,  \* closure variable `scrollTimeout` (NULL: undefined)
  evLast,         \* observed: the last previous/next click [kind, from]
  \* blocks/header
  navPc,            \* position of decorate: start / done
  desktop,          \* isDesktop.matches
  navExpanded,      \* nav has aria-expanded="true"
  overflowY,        \* document.body.style.overflowY
  buttonLabel,      \* aria-label of the hamburger button
  sectionExpanded,  \* aria-expanded of each top-level section ("none": unset)
  escapeListener,   \* closeOnEscape listens to keydown on window
  focusoutListener, \* closeOnFocusLost listens to focusout on nav
  dropsFocusable,   \* the nav-drop sections have tabindex and the focus listener
  keydownBound,     \* the sections openOnKeydown has been added to
  activeElement,    \* document.activeElement: [kind, section]
  navLast,          \* observed: the last handler that ran and the state before it
  \* blocks/comd-resources, blocks/comd-roles, blocks/comd-events
  cdKind,      \* which of the three blocks: resources / roles / events
  cdPc,        \* position of decorate: start / fetching / json / done
  cdSource,    \* the text of the block's first cell, Missing without a cell
  cdQuery,     \* the name parameter of the page address, Missing without one
  cdBody,      \* what the server holds for the source
  cdChildren,  \* the children of the block
  cdSettled,   \* the promise decorate returned: pending / fulfilled / rejected
  cdFailure    \* observed: how the load went

hlVars == << node, search, hash, pc, term, regex, currentNode, fragment,
             highlights, scrollCalls, warned, propagated, traversed, pre,
             callsLeft, prev >>

pageVars == << phase, firstSection, sections, called >>

timerVars == << timers, timeoutId, callCount, sinceCall, lastArgs, bursts, runs >>

blockVars == << recordingsData, recordingsSearchQuery, recordingsSortBy,
                recordingsDateRange, recordingsSelectedTags, searchValue,
                sortValue, radioValue, checked, rendered >>

recVars == << timerVars, blockVars >>

eventsVars == << evNow, evRows, evPc, allEvents, filteredEvents, evBlock,
                 evCards, slideCount, currentSlide, atStart, atEnd, evBound,
                 scrollLeft, scrollTarget, scrollTimeout, evLast >>

navVars == << navPc, desktop, navExpanded, overflowY, buttonLabel,
              sectionExpanded, escapeListener, focusoutListener, dropsFocusable,
              keydownBound, activeElement, navLast >>

comdVars == << cdKind, cdPc, cdSource, cdQuery, cdBody, cdChildren, cdSettled,
               cdFailure >>

uiVars == << eventsVars, navVars, comdVars >>

vars == << hlVars, pageVars, recVars, uiVars >>

----------------------------------------------------------------------------
(* Bounds and alphabets of the inputs *)

MaxLen == 2       \* generic text nodes have at most this many characters
MaxTermLen == 2   \* generic query values have at most this many characters
MaxCalls == 2     \* calls on the same root in the repeated-call specification

NULL == 0
ROOT == 1

Chars == {"a", "A", "b"}
TermChars == {"a", "b", "+"}

SeqsUpTo(S, n) == UNION {[1..k -> S] : k \in 0..n}

HelloWorld == <<"H", "e", "l", "l", "o", " ", "W", "o", "r", "l", "d">>
world == <<"w", "o", "r", "l", "d">>
DotText == <<"a", ".", "b", " ", "a", "n", "d", " ", "a", "x", "b">>
DotTerm == <<"a", ".", "b">>

----------------------------------------------------------------------------
(* Strings *)

Slice(s, from, to) == SubSeq(s, from + 1, to)

Min(S) == CHOOSE x \in S : \A y \in S : x <= y

\* String.prototype.toUpperCase on the characters of the model
ToUpperCase(c) ==
  CASE c = "a" -> "A" [] c = "b" -> "B" [] c = "d" -> "D" [] c = "e" -> "E"
    [] c = "h" -> "H" [] c = "l" -> "L" [] c = "o" -> "O" [] c = "r" -> "R"
    [] c = "w" -> "W" [] c = "n" -> "N" [] c = "x" -> "X" [] OTHER -> c

IsWhiteSpace(c) == c = " "

\* term.replace(/\+/g, ' ')
PlusToSpace(s) == [i \in 1..Len(s) |-> IF s[i] = "+" THEN " " ELSE s[i]]

RECURSIVE TrimStart(_)
TrimStart(s) ==
  IF s # <<>> /\ IsWhiteSpace(Head(s)) THEN TrimStart(Tail(s)) ELSE s

RECURSIVE TrimEnd(_)
TrimEnd(s) ==
  IF s # <<>> /\ IsWhiteSpace(s[Len(s)]) THEN TrimEnd(SubSeq(s, 1, Len(s) - 1)) ELSE s

TrimNone(s) == s

\* String.prototype.trim
Trim(s) == TrimEnd(TrimStart(s))

----------------------------------------------------------------------------
(* The matcher: new RegExp(escaped, 'gi') *)

MetaChars == {".", "*", "+", "?", "^", "$", "{", "}", "(", ")", "|", "[", "]", "\\"}

\* term.replace(/[.*+?^${}()|[\]\\]/g, '\\$&')
EscapeNothing(s) == s

RECURSIVE Escape(_)
Escape(s) ==
  IF s = <<>> THEN <<>>
  ELSE (IF Head(s) \in MetaChars THEN <<"\\", Head(s)>> ELSE <<Head(s)>>)
       \o Escape(Tail(s))

\* The pattern source read as a regular expression: an escaped character is
\* that literal character, a bare dot is any character, every other
\* character is itself.  (No other bare metacharacter reaches the parser.)
RECURSIVE Compile(_)
Compile(p) ==
  IF p = <<>> THEN <<>>
  ELSE IF Head(p) = "\\" /\ Len(p) >= 2
    THEN <<[any |-> FALSE, ch |-> p[2]]>> \o Compile(SubSeq(p, 3, Len(p)))
  ELSE IF Head(p) = "."
    THEN <<[any |-> TRUE, ch |-> "."]>> \o Compile(Tail(p))
  ELSE <<[any |-> FALSE, ch |-> Head(p)]>> \o Compile(Tail(p))

AtomMatchesCaseSensitive(a, c) == a.any \/ a.ch = c

\* flag i: characters are compared after canonicalisation
AtomMatches(a, c) == a.any \/ ToUpperCase(a.ch) = ToUpperCase(c)

MatchAt(re, text, i) ==
  /\ i + Len(re) <= Len(text)
  /\ \A k \in 1..Len(re) : AtomMatches(re[k], text[i + k])

\* regex.exec(text) with regex.lastIndex = lastIndex: the index of the
\* leftmost match starting at or after lastIndex, or -1 (null)
Exec(re, text, lastIndex) ==
  LET S == {i \in lastIndex..Len(text) : MatchAt(re, text, i)}
  IN IF S = {} THEN -1 ELSE Min(S)

\* regex.test(text) with lastIndex = 0
Test(re, text) == Exec(re, text, 0) # -1

----------------------------------------------------------------------------
(* DOM nodes *)

Element(tag, cls, parent, kids) ==
  [nodeType |-> "element", tagName |-> tag, className |-> cls,
   nodeValue |-> <<>>, parentNode |-> parent, childNodes |-> kids]

TextNode(value, parent) ==
  [nodeType |-> "text", tagName |-> "", className |-> "",
   nodeValue |-> value, parentNode |-> parent, childNodes |-> <<>>]

DocumentFragment ==
  [nodeType |-> "fragment", tagName |-> "", className |-> "",
   nodeValue |-> <<>>, parentNode |-> NULL, childNodes |-> <<>>]

IndexOf(seq, x) == CHOOSE i \in 1..Len(seq) : seq[i] = x

\* node.parentElement
ParentElement(tbl, n) ==
  LET p == tbl[n].parentNode
  IN IF p # NULL /\ tbl[p].nodeType = "element" THEN p ELSE NULL

\* node.nextSibling
NextSibling(tbl, n) ==
  LET p == tbl[n].parentNode
  IN IF p = NULL THEN NULL
     ELSE LET ks == tbl[p].childNodes
              i == IndexOf(ks, n)
          IN IF i < Len(ks) THEN ks[i + 1] ELSE NULL

\* el.closest('.hlx-highlight'): el or an ancestor element carries the class
RECURSIVE Closest(_, _)
Closest(tbl, el) ==
  IF el = NULL \/ tbl[el].nodeType # "element" THEN FALSE
  ELSE tbl[el].className = "hlx-highlight" \/ Closest(tbl, tbl[el].parentNode)

SkipTagNames == {"SCRIPT", "STYLE", "NOSCRIPT", "IFRAME", "OBJECT", "EMBED", "SVG"}

IsSkippableContainerNoClosest(tbl, el) ==
  IF el = NULL THEN TRUE ELSE tbl[el].tagName \in SkipTagNames

IsSkippableContainer(tbl, el) ==
  IF el = NULL THEN TRUE
  ELSE tbl[el].tagName \in SkipTagNames \/ Closest(tbl, el)

AcceptNodeNoTest(tbl, re, n) ==
  LET parent == ParentElement(tbl, n)
  IN IF parent = NULL \/ IsSkippableContainer(tbl, parent) THEN "FILTER_REJECT"
     ELSE IF tbl[n].nodeValue = <<>> THEN "FILTER_SKIP"
     ELSE "FILTER_ACCEPT"

\* the walker's filter callback
AcceptNode(tbl, re, n) ==
  LET parent == ParentElement(tbl, n)
  IN IF parent = NULL \/ IsSkippableContainer(tbl, parent) THEN "FILTER_REJECT"
     ELSE IF tbl[n].nodeValue = <<>> THEN "FILTER_SKIP"
     ELSE IF Test(re, tbl[n].nodeValue) THEN "FILTER_ACCEPT" ELSE "FILTER_SKIP"

\* filtering a node within the walker: whatToShow = SHOW_TEXT, so every node
\* that is not a text node is skipped (and descended into) without the callback
Filter(tbl, re, n) ==
  IF tbl[n].nodeType # "text" THEN "FILTER_SKIP" ELSE AcceptNode(tbl, re, n)

\* the node after n in document order that is not a descendant of n and
\* is inside root; NULL when there is none (also when n is detached)
RECURSIVE NextSkippingChildren(_, _)
NextSkippingChildren(tbl, n) ==
  IF n = ROOT THEN NULL
  ELSE IF NextSibling(tbl, n) # NULL THEN NextSibling(tbl, n)
  ELSE IF tbl[n].parentNode = NULL THEN NULL
  ELSE NextSkippingChildren(tbl, tbl[n].parentNode)

\* walker.nextNode(): NULL, or the next accepted node, which becomes current
RECURSIVE WalkChildren(_, _, _), WalkSiblings(_, _, _)
WalkChildren(tbl, re, n) ==
  IF tbl[n].childNodes = <<>> THEN WalkSiblings(tbl, re, n)
  ELSE LET c == tbl[n].childNodes[1]
           r == Filter(tbl, re, c)
       IN IF r = "FILTER_ACCEPT" THEN c
          ELSE IF r = "FILTER_REJECT" THEN WalkSiblings(tbl, re, c)
          ELSE WalkChildren(tbl, re, c)

WalkSiblings(tbl, re, n) ==
  LET s == NextSkippingChildren(tbl, n)
  IN IF s = NULL THEN NULL
     ELSE LET r == Filter(tbl, re, s)
          IN IF r = "FILTER_ACCEPT" THEN s
             ELSE IF r = "FILTER_SKIP" THEN WalkChildren(tbl, re, s)
             ELSE WalkSiblings(tbl, re, s)

NextNode(tbl, re, current) == WalkChildren(tbl, re, current)

----------------------------------------------------------------------------
(* The body of the loop: lines 66-90 *)

\* The inner exec loop and the trailing slice: the pieces of the replacement
\* fragment, left to right; each is an unwrapped run or one match.
RECURSIVE PiecesNoSuffix(_, _, _)
PiecesNoSuffix(re, textContent, lastIndex) ==
  LET matchStart == Exec(re, textContent, lastIndex)
      matchEnd == matchStart + Len(re)
  IN IF matchStart = -1 THEN << >>
     ELSE (IF matchStart > lastIndex
             THEN << [span |-> FALSE, s |-> Slice(textContent, lastIndex, matchStart)] >>
             ELSE << >>)
          \o << [span |-> TRUE, s |-> Slice(textContent, matchStart, matchEnd)] >>
          \o PiecesNoSuffix(re, textContent, matchEnd)

RECURSIVE PiecesEmptyRuns(_, _, _)
PiecesEmptyRuns(re, textContent, lastIndex) ==
  LET matchStart == Exec(re, textContent, lastIndex)
      matchEnd == matchStart + Len(re)
  IN IF matchStart = -1
       THEN IF lastIndex < Len(textContent)
              THEN << [span |-> FALSE, s |-> Slice(textContent, lastIndex, Len(textContent))] >>
              ELSE << >>
       ELSE << [span |-> FALSE, s |-> Slice(textContent, lastIndex, matchStart)],
               [span |-> TRUE, s |-> Slice(textContent, matchStart, matchEnd)] >>
            \o PiecesEmptyRuns(re, textContent, matchEnd)

RECURSIVE Pieces(_, _, _)
Pieces(re, textContent, lastIndex) ==
  LET matchStart == Exec(re, textContent, lastIndex)
      matchEnd == matchStart + Len(re)
  IN IF matchStart = -1
       THEN IF lastIndex < Len(textContent)
              THEN << [span |-> FALSE, s |-> Slice(textContent, lastIndex, Len(textContent))] >>
              ELSE << >>
       ELSE (IF matchStart > lastIndex
               THEN << [span |-> FALSE, s |-> Slice(textContent, lastIndex, matchStart)] >>
               ELSE << >>)
            \o << [span |-> TRUE, s |-> Slice(textContent, matchStart, matchEnd)] >>
            \o Pieces(re, textContent, matchEnd)

\* createTextNode / createElement('span') + textContent, then appendChild to
\* the fragment, for each piece in turn; new nodes get the next free ids
RECURSIVE AppendPieces(_, _, _)
AppendPieces(tbl, frag, pieces) ==
  IF pieces = << >> THEN tbl
  ELSE LET p == Head(pieces)
           id == Len(tbl) + 1
           made == IF p.span
                     THEN tbl \o << Element("SPAN", "hlx-highlight", frag, <<id + 1>>),
                                    TextNode(p.s, id) >>
                     ELSE Append(tbl, TextNode(p.s, frag))
       IN AppendPieces([made EXCEPT ![frag].childNodes = Append(@, id)],
                       frag, Tail(pieces))

\* the spans of a fragment, in the order they were pushed to `highlights`
SpansOf(tbl, frag) ==
  SelectSeq(tbl[frag].childNodes, LAMBDA k : tbl[k].nodeType = "element")

\* variants of replaceChild: only the first child of the fragment is put in;
\* the children are appended at the end of the parent; old stays in place
ReplaceChildFirstOnly(tbl, parent, frag, old) ==
  LET ks == tbl[parent].childNodes
      i == IndexOf(ks, old)
      first == tbl[frag].childNodes[1]
  IN [n \in 1..Len(tbl) |->
        IF n = parent
          THEN [tbl[n] EXCEPT !.childNodes =
                  SubSeq(ks, 1, i - 1) \o <<first>> \o SubSeq(ks, i + 1, Len(ks))]
        ELSE IF n = frag THEN [tbl[n] EXCEPT !.childNodes = Tail(@)]
        ELSE IF n = old THEN [tbl[n] EXCEPT !.parentNode = NULL]
        ELSE IF n = first THEN [tbl[n] EXCEPT !.parentNode = parent]
        ELSE tbl[n]]

ReplaceChildAtEnd(tbl, parent, frag, old) ==
  LET ks == tbl[parent].childNodes
      i == IndexOf(ks, old)
      moved == tbl[frag].childNodes
  IN [n \in 1..Len(tbl) |->
        IF n = parent
          THEN [tbl[n] EXCEPT !.childNodes =
                  SubSeq(ks, 1, i - 1) \o SubSeq(ks, i + 1, Len(ks)) \o moved]
        ELSE IF n = frag THEN [tbl[n] EXCEPT !.childNodes = << >>]
        ELSE IF n = old THEN [tbl[n] EXCEPT !.parentNode = NULL]
        ELSE IF \E k \in 1..Len(moved) : moved[k] = n
          THEN [tbl[n] EXCEPT !.parentNode = parent]
        ELSE tbl[n]]

ReplaceChildKeepOld(tbl, parent, frag, old) ==
  LET ks == tbl[parent].childNodes
      i == IndexOf(ks, old)
      moved == tbl[frag].childNodes
  IN [n \in 1..Len(tbl) |->
        IF n = parent
          THEN [tbl[n] EXCEPT !.childNodes =
                  SubSeq(ks, 1, i - 1) \o moved \o SubSeq(ks, i, Len(ks))]
        ELSE IF n = frag THEN [tbl[n] EXCEPT !.childNodes = << >>]
        ELSE IF \E k \in 1..Len(moved) : moved[k] = n
          THEN [tbl[n] EXCEPT !.parentNode = parent]
        ELSE tbl[n]]

\* parent.replaceChild(fragment, old): the fragment's children take old's
\* place in order, the fragment is left empty and old is detached
ReplaceChild(tbl, parent, frag, old) ==
  LET ks == tbl[parent].childNodes
      i == IndexOf(ks, old)
      moved == tbl[frag].childNodes
  IN [n \in 1..Len(tbl) |->
        IF n = parent
          THEN [tbl[n] EXCEPT !.childNodes =
                  SubSeq(ks, 1, i - 1) \o moved \o SubSeq(ks, i + 1, Len(ks))]
        ELSE IF n = frag THEN [tbl[n] EXCEPT !.childNodes = << >>]
        ELSE IF n = old THEN [tbl[n] EXCEPT !.parentNode = NULL]
        ELSE IF \E k \in 1..Len(moved) : moved[k] = n
          THEN [tbl[n] EXCEPT !.parentNode = parent]
        ELSE tbl[n]]

----------------------------------------------------------------------------
(* Inputs *)

Texts ==
  SeqsUpTo(Chars, MaxLen)
    \cup {HelloWorld, DotText,
          <<"a", "b", "a">>, <<"a", "a", "a">>, <<"a", "a", "b", "a">>}
InnerTexts == {<<"a">>, <<"b">>}
OuterTags == {"DIV", "OBJECT"}
InnerTags == {"P", "SCRIPT"}

\* values of the query parameter as URLSearchParams.get returns them
QueryValues == SeqsUpTo(TermChars, MaxTermLen) \cup {world, DotTerm, <<".">>, <<" ">>, <<"a", " ">>}

\* <main> t1 <tag1> t2 <tag2> t3 </tag2> </tag1> </main>
Document(t1, tag1, t2, tag2, t3) ==
  << Element("MAIN", "", NULL, <<2, 3>>),
     TextNode(t1, 1),
     Element(tag1, "", 1, <<4, 5>>),
     TextNode(t2, 3),
     Element(tag2, "", 3, <<6>>),
     TextNode(t3, 5) >>

Documents ==
  {Document(t1, tag1, t2, tag2, t3) :
     t1 \in Texts, tag1 \in OuterTags, t2 \in InnerTexts,
     tag2 \in InnerTags, t3 \in InnerTexts}

RepeatTexts == {<<"a", "b">>, <<"a", "A">>, <<"a", "b", "a">>}

RepeatDocuments ==
  {Document(t1, "DIV", t2, "P", <<"a">>) :
     t1 \in RepeatTexts, t2 \in InnerTexts}

----------------------------------------------------------------------------
(* highlightFromQuery *)

TryBlockWithoutScroll == {"entry", "walk", "body", "replace"}

\* the positions the try block of lines 23-96 covers
TryBlock == {"entry", "walk", "body", "replace", "scroll"}

InitWith(documents, calls) ==
  /\ node \in documents
  /\ callsLeft = calls
  /\ search = << >>
  /\ hash \in BOOLEAN
  /\ pc = "idle"
  /\ term = << >>
  /\ regex = << >>
  /\ currentNode = NULL
  /\ fragment = NULL
  /\ highlights = << >>
  /\ scrollCalls = << >>
  /\ warned = FALSE
  /\ propagated = FALSE
  /\ traversed = FALSE
  /\ pre = node
  /\ prev = << >>

\* no timer is pending and the debounced function has not been called
NoTimers ==
  /\ timers = {}
  /\ timeoutId = NULL
  /\ callCount = 0
  /\ sinceCall = 0
  /\ lastArgs = << >>
  /\ bursts = 0
  /\ runs = << >>

\* a page without a recordings block
NoRecordings ==
  /\ recordingsData = << >>
  /\ recordingsSearchQuery = << >>
  /\ recordingsSortBy = "date-desc"
  /\ recordingsDateRange = "all"
  /\ recordingsSelectedTags = {}
  /\ searchValue = << >>
  /\ sortValue = "date-desc"
  /\ radioValue = "all"
  /\ checked = {}
  /\ rendered = << >>

\* a page without an events block
NoEvents ==
  /\ evNow = 0
  /\ evRows = << >>
  /\ evPc = "start"
  /\ allEvents = << >>
  /\ filteredEvents = << >>
  /\ evBlock = "rows"
  /\ evCards = << >>
  /\ slideCount = 0
  /\ currentSlide = << >>
  /\ atStart = FALSE
  /\ atEnd = FALSE
  /\ evBound = FALSE
  /\ scrollLeft = 0
  /\ scrollTarget = 0
  /\ scrollTimeout = NULL
  /\ evLast = [kind |-> "none", from |-> 0]

\* a page without a header
NoNav ==
  /\ navPc = "start"
  /\ desktop = FALSE
  /\ navExpanded = FALSE
  /\ overflowY = ""
  /\ buttonLabel = "Open navigation"
  /\ sectionExpanded = << >>
  /\ escapeListener = FALSE
  /\ focusoutListener = FALSE
  /\ dropsFocusable = FALSE
  /\ keydownBound = {}
  /\ activeElement = [kind |-> "outside", section |-> 0]
  /\ navLast = [kind |-> "none", section |-> 0, expanded |-> FALSE, desktop |-> FALSE]

\* a page without a community-detail block
NoComd ==
  /\ cdKind = "none"
  /\ cdPc = "done"
  /\ cdSource = << >>
  /\ cdQuery = << >>
  /\ cdBody = << >>
  /\ cdChildren = << >>
  /\ cdSettled = "pending"
  /\ cdFailure = "none"

\* a page without the other blocks
NoBlocks == NoEvents /\ NoNav /\ NoComd

\* the highlighter on its own, outside loadPage
Standalone ==
  /\ phase = "standalone"
  /\ firstSection = "idle"
  /\ sections = "idle"
  /\ called = << >>
  /\ NoTimers
  /\ NoRecordings
  /\ NoBlocks

\* the page: one call per page load (loadLazy)
Init == InitWith(Documents, 1) /\ Standalone

\* subtrees with several matches in one text node and several matching nodes
FairDocuments ==
  {Document(t1, "DIV", <<"a">>, tag2, <<"a">>) :
     t1 \in {<<"a", "b", "a">>, <<"a", "A">>}, tag2 \in InnerTags}

InitFair == InitWith(FairDocuments, 1) /\ Standalone

\* the same root highlighted several times
InitRepeat == InitWith(RepeatDocuments, MaxCalls) /\ Standalone

AwaitedNever(promise) == TRUE

\* await p: the code after it runs only once p is settled
Awaited(promise) == promise = "done"

\* an exception raised at position p: caught at line 96 and logged when p is
\* inside the try block, leaving the function otherwise
Throw(p) ==
  /\ pc' = "done"
  /\ IF p \in TryBlock
       THEN warned' = TRUE /\ UNCHANGED propagated
       ELSE propagated' = TRUE /\ UNCHANGED warned

\* loadLazy line 189: highlightFromQuery(main) is entered; the query string
\* of the page is whatever it is at that moment
Call ==
  /\ \/ phase = "standalone"
     \/ phase = "lazy:await" /\ Awaited(sections)
  /\ phase' = IF phase = "standalone" THEN phase ELSE "lazy:highlight"
  /\ pc \in {"idle", "done"}
  /\ ~propagated
  /\ callsLeft > 0
  /\ callsLeft' = callsLeft - 1
  /\ \E present \in BOOLEAN :
       \E v \in QueryValues :
         search' = IF present THEN <<v>> ELSE << >>
  /\ pc' = "entry"
  /\ term' = << >>
  /\ regex' = << >>
  /\ currentNode' = NULL
  /\ fragment' = NULL
  /\ highlights' = << >>
  /\ scrollCalls' = << >>
  /\ warned' = FALSE
  /\ traversed' = FALSE
  /\ pre' = node
  /\ prev' = IF pc = "done" /\ traversed /\ ~warned THEN term ELSE << >>
  /\ UNCHANGED << node, hash, propagated, firstSection, sections, called,
                  recVars, uiVars >>

\* lines 24-58: read and clean the term, build the matcher and the walker
ReadTerm ==
  /\ pc = "entry"
  /\ LET raw == IF search = << >> THEN << >> ELSE search[1]
         cleaned == Trim(PlusToSpace(raw))
     IN IF raw = << >> \/ cleaned = << >>
          THEN /\ pc' = "done"
               /\ UNCHANGED << term, regex, currentNode >>
          ELSE /\ term' = cleaned
               /\ regex' = Compile(Escape(cleaned))
               /\ currentNode' = ROOT
               /\ pc' = "walk"
  /\ UNCHANGED << node, search, hash, fragment, highlights, scrollCalls,
                  warned, propagated, traversed, pre,
                  callsLeft, prev, pageVars, recVars, uiVars >>

\* line 61: while (walker.nextNode())
Walk ==
  /\ pc = "walk"
  /\ LET n == NextNode(node, regex, currentNode)
     IN IF n = NULL
          THEN /\ traversed' = TRUE
               /\ pc' = "scroll"
               /\ UNCHANGED currentNode
          ELSE /\ currentNode' = n
               /\ pc' = "body"
               /\ UNCHANGED traversed
  /\ UNCHANGED << node, search, hash, term, regex, fragment, highlights,
                  scrollCalls, warned, propagated, pre,
                  callsLeft, prev, pageVars, recVars, uiVars >>

\* lines 62-87: build the replacement fragment for walker.currentNode
BuildFragment ==
  /\ pc = "body"
  /\ LET textContent == node[currentNode].nodeValue
         frag == Len(node) + 1
         built == AppendPieces(Append(node, DocumentFragment), frag,
                               Pieces(regex, textContent, 0))
     IN IF textContent = << >>
          THEN /\ pc' = "walk"
               /\ UNCHANGED << node, fragment, highlights >>
          ELSE /\ node' = built
               /\ fragment' = frag
               /\ highlights' = highlights \o SpansOf(built, frag)
               /\ pc' = "replace"
  /\ UNCHANGED << search, hash, term, regex, currentNode, scrollCalls,
                  warned, propagated, traversed, pre,
                  callsLeft, prev, pageVars, recVars, uiVars >>

\* lines 88-90: put the fragment in the place of the text node
Replace ==
  /\ pc = "replace"
  /\ LET parent == node[currentNode].parentNode
     IN IF parent # NULL
          THEN node' = ReplaceChild(node, parent, fragment, currentNode)
          ELSE UNCHANGED node
  /\ pc' = "walk"
  /\ UNCHANGED << search, hash, term, regex, currentNode, fragment,
                  highlights, scrollCalls, warned, propagated, traversed, pre,
                  callsLeft, prev, pageVars, recVars, uiVars >>

ShouldScrollIgnoringHash(hl, h) == Len(hl) > 0

\* line 93: highlights.length > 0 && !window.location.hash
ShouldScroll(hl, h) == Len(hl) > 0 /\ ~h

\* lines 93-95: scroll to the first highlight unless the page has a hash;
\* scrollIntoView may itself throw
Scroll ==
  /\ pc = "scroll"
  /\ IF ShouldScroll(highlights, hash)
       THEN /\ scrollCalls' = Append(scrollCalls, highlights[1])
            /\ \E throws \in BOOLEAN :
                 IF throws THEN Throw("scroll")
                 ELSE pc' = "done" /\ UNCHANGED << warned, propagated >>
       ELSE /\ pc' = "done"
            /\ UNCHANGED << scrollCalls, warned, propagated >>
  /\ UNCHANGED << node, search, hash, term, regex, currentNode, fragment,
                  highlights, traversed, pre,
                  callsLeft, prev, pageVars, recVars, uiVars >>

\* a platform call made at the current position throws
Fail ==
  /\ pc \in {"entry", "walk", "body", "replace"}
  /\ Throw(pc)
  /\ UNCHANGED << node, search, hash, term, regex, currentNode, fragment,
                  highlights, scrollCalls, traversed, pre,
                  callsLeft, prev, pageVars, recVars, uiVars >>

Next == Call \/ ReadTerm \/ Walk \/ BuildFragment \/ Replace \/ Scroll \/ Fail

Spec == Init /\ [][Next]_vars

SpecRepeat == InitRepeat /\ [][Next]_vars

\* the event loop runs every continuation that is ready
SpecFair == InitFair /\ [][Next]_vars /\ WF_vars(Next)

----------------------------------------------------------------------------
(* loadPage: loadEager, loadLazy, loadDelayed (scripts.js lines 160-218) *)

\* the pages loaded: <main> of the page with its sections
PageDocuments ==
  {Document(<<"a", "b">>, "DIV", t2, "P", <<"a">>) : t2 \in InnerTexts}

InitPage ==
  /\ InitWith(PageDocuments, 1)
  /\ phase = "page:start"
  /\ firstSection = "idle"
  /\ sections = "idle"
  /\ called = << >>
  /\ NoTimers
  /\ NoRecordings
  /\ NoBlocks

\* lines 212-213 and 160-167: loadPage calls loadEager, which decorates main
\* and stops at `await loadSection(first section)`
LoadEagerStart ==
  /\ phase = "page:start"
  /\ phase' = "eager:await"
  /\ firstSection' = "pending"
  /\ called' = called \o << "decorateMain", "loadSection" >>
  /\ UNCHANGED << uiVars, recVars, hlVars, sections >>

\* the first section has loaded
FirstSectionLoaded ==
  /\ firstSection = "pending"
  /\ firstSection' = "done"
  /\ UNCHANGED << uiVars, recVars, hlVars, phase, sections, called >>

\* lines 170-178: the rest of loadEager; fonts are loaded early on desktop
\* or when they were loaded before
LoadEagerResume ==
  /\ phase = "eager:await"
  /\ Awaited(firstSection)
  /\ phase' = "eager:done"
  /\ \E fontsNow \in BOOLEAN :
       called' = IF fontsNow THEN Append(called, "loadFonts") ELSE called
  /\ UNCHANGED << uiVars, recVars, hlVars, firstSection, sections >>

\* lines 214 and 184-186: after `await loadEager`, loadLazy starts and stops
\* at `await loadSections(main)`
LoadLazyStart ==
  /\ phase = "eager:done"
  /\ phase' = "lazy:await"
  /\ sections' = "pending"
  /\ called' = Append(called, "loadSections")
  /\ UNCHANGED << uiVars, recVars, hlVars, firstSection >>

\* all sections have loaded
SectionsLoaded ==
  /\ sections = "pending"
  /\ sections' = "done"
  /\ UNCHANGED << uiVars, recVars, hlVars, phase, firstSection, called >>

\* lines 191-199: after highlightFromQuery has returned, the anchor scroll,
\* header, footer, lazy styles and fonts; an exception that left the
\* highlighter rejects loadLazy and with it loadPage
LoadLazyRest ==
  /\ phase = "lazy:highlight"
  /\ pc = "done"
  /\ IF propagated
       THEN phase' = "rejected" /\ UNCHANGED called
       ELSE /\ phase' = "lazy:done"
            /\ \E element \in BOOLEAN :
                 called' = called
                   \o (IF hash /\ element THEN << "element.scrollIntoView" >> ELSE << >>)
                   \o << "loadHeader", "loadFooter", "loadCSS", "loadFonts:lazy" >>
  /\ UNCHANGED << uiVars, recVars, hlVars, firstSection, sections >>

\* lines 215 and 206-210: after `await loadLazy`
LoadDelayed ==
  /\ phase = "lazy:done"
  /\ phase' = "page:done"
  /\ called' = Append(called, "loadDelayed")
  /\ UNCHANGED << uiVars, recVars, hlVars, firstSection, sections >>

NextPage ==
  \/ LoadEagerStart \/ FirstSectionLoaded \/ LoadEagerResume
  \/ LoadLazyStart \/ SectionsLoaded
  \/ Call \/ ReadTerm \/ Walk \/ BuildFragment \/ Replace \/ Scroll \/ Fail
  \/ LoadLazyRest \/ LoadDelayed

SpecPage == InitPage /\ [][NextPage]_vars

SpecPageFair == InitPage /\ [][NextPage]_vars /\ WF_vars(NextPage)

----------------------------------------------------------------------------
(* Observations of the document used by the properties *)

\* the nodes of the subtree of n in document order
RECURSIVE DocOrder(_, _), DocOrderOfAll(_, _)
DocOrder(tbl, n) == <<n>> \o DocOrderOfAll(tbl, tbl[n].childNodes)

DocOrderOfAll(tbl, ks) ==
  IF ks = << >> THEN << >>
  ELSE DocOrder(tbl, Head(ks)) \o DocOrderOfAll(tbl, Tail(ks))

RECURSIVE ConcatValues(_, _)
ConcatValues(tbl, ids) ==
  IF ids = << >> THEN << >>
  ELSE tbl[Head(ids)].nodeValue \o ConcatValues(tbl, Tail(ids))

\* n.textContent
TextContent(tbl, n) == ConcatValues(tbl, DocOrder(tbl, n))

Range(seq) == {seq[i] : i \in 1..Len(seq)}

IsMarker(tbl, n) ==
  tbl[n].nodeType = "element" /\ tbl[n].className = "hlx-highlight"

RECURSIVE Ancestors(_, _)
Ancestors(tbl, n) ==
  IF tbl[n].parentNode = NULL THEN {}
  ELSE {tbl[n].parentNode} \cup Ancestors(tbl, tbl[n].parentNode)

\* the term occurs in text at 0-based offset i, letter case ignored
OccursAt(t, text, i) ==
  /\ t # << >>
  /\ i + Len(t) <= Len(text)
  /\ \A k \in 1..Len(t) : ToUpperCase(text[i + k]) = ToUpperCase(t[k])

Occurs(t, text) == \E i \in 0..Len(text) : OccursAt(t, text, i)

\* text nodes under the root whose parent element is outside the skip-set
\* and which are not inside a marker
EligibleTexts(tbl) ==
  {n \in Range(DocOrder(tbl, ROOT)) :
     /\ tbl[n].nodeType = "text"
     /\ tbl[tbl[n].parentNode].tagName \notin SkipTagNames
     /\ \A a \in Ancestors(tbl, n) : ~IsMarker(tbl, a)}

\* markers under the root, in document order
MarkersInOrder(tbl) ==
  SelectSeq(DocOrder(tbl, ROOT), LAMBDA n : IsMarker(tbl, n))

\* the marker spans this call has created
CreatedMarkers ==
  {n \in (Len(pre) + 1)..Len(node) : IsMarker(node, n)}

----------------------------------------------------------------------------
(* C1: when highlightFromQuery has returned, the concatenated text content *)
(* under the root is the same string as before the call.                   *)
C1_TextContentPreserved ==
  pc = "done" => TextContent(node, ROOT) = TextContent(pre, ROOT)

C1_Witness ==
  /\ pc = "done"
  /\ Cardinality(CreatedMarkers) >= 2
  /\ Len(MarkersInOrder(node)) >= 2
  /\ TextContent(node, ROOT) = TextContent(pre, ROOT)

(* C2: when highlightFromQuery returns without an exception, no eligible   *)
(* text node under the root still contains the term.                       *)
C2_NoRawOccurrenceLeft ==
  (pc = "done" /\ traversed /\ ~warned)
    => \A n \in EligibleTexts(node) : ~Occurs(term, node[n].nodeValue)

(* C3: a text node that lies inside a skip-set element, at any depth, is   *)
(* never replaced.                                                         *)
InSkipSet(tbl, n) ==
  \E a \in Ancestors(tbl, n) : tbl[a].tagName \in SkipTagNames

C3_SkipSetUntouched ==
  \A n \in 1..Len(pre) :
    (pre[n].nodeType = "text" /\ InSkipSet(pre, n)) => node[n] = pre[n]

(* C4: after any number of calls, no marker span is a descendant of        *)
(* another marker span.                                                    *)
C4_MarkersNeverNested ==
  \A m \in 1..Len(node) :
    IsMarker(node, m) => \A a \in Ancestors(node, m) : ~IsMarker(node, a)

\* a later call has created a marker although its term also occurs inside
\* a marker of an earlier call
C4_Witness ==
  /\ pc = "done"
  /\ CreatedMarkers # {}
  /\ \E m \in 1..Len(pre) :
       /\ IsMarker(pre, m)
       /\ pre[m].parentNode # NULL
       /\ Occurs(term, TextContent(pre, m))

(* C5: if the term occurs in no eligible text node, the call leaves the    *)
(* document exactly as it was and makes no scroll call.                    *)
TermAbsent(tbl, t) ==
  \A n \in EligibleTexts(tbl) : ~Occurs(t, tbl[n].nodeValue)

C5_NoMatchNoChange ==
  (pc = "done" /\ term # << >> /\ TermAbsent(pre, term))
    => (node = pre /\ scrollCalls = << >>)

\* the walk ran over a document whose only occurrences are in a skipped place
C5_Witness ==
  /\ pc = "done"
  /\ traversed
  /\ TermAbsent(pre, term)
  /\ \E n \in Range(DocOrder(pre, ROOT)) :
       pre[n].nodeType = "text" /\ Occurs(term, pre[n].nodeValue)
  /\ node = pre
  /\ scrollCalls = << >>

(* C6: with the highlight parameter absent, empty, or made only of spaces  *)
(* and '+', the call mutates nothing and makes no scroll call.             *)
BlankQuery ==
  \/ search = << >>
  \/ \A i \in 1..Len(search[1]) : search[1][i] \in {" ", "+"}

C6_BlankQueryIsNoop ==
  (pc = "done" /\ BlankQuery) => (node = pre /\ scrollCalls = << >>)

\* a parameter of '+' and/or spaces, on a document that contains a space
C6_Witness ==
  /\ pc = "done"
  /\ search # << >>
  /\ search[1] # << >>
  /\ BlankQuery
  /\ Occurs(<<" ">>, TextContent(pre, ROOT))
  /\ node = pre
  /\ ~warned

(* C7: no exception ever leaves highlightFromQuery.                        *)
C7_NeverPropagates == ~propagated

\* scrollIntoView was called, threw, and the failure was logged
C7_Witness ==
  /\ pc = "done"
  /\ warned
  /\ scrollCalls # << >>
  /\ ~propagated

(* C8: after the traversal, scrollIntoView is called exactly once, on the  *)
(* first marker in document order, if a marker was created and the hash is *)
(* empty; with a hash or without a created marker no scroll call is made.  *)
C8_ScrollToFirstMarker ==
  /\ (pc = "done" /\ traversed /\ CreatedMarkers # {} /\ ~hash)
       => scrollCalls = << MarkersInOrder(node)[1] >>
  /\ (hash \/ CreatedMarkers = {}) => scrollCalls = << >>

C8_Witness ==
  /\ pc = "done"
  /\ traversed
  /\ ~hash
  /\ Cardinality(CreatedMarkers) >= 2
  /\ scrollCalls = << MarkersInOrder(node)[1] >>

(* C9: the replacement of a text node is, left to right, one marker per    *)
(* non-overlapping match and every non-empty unmatched run as an unwrapped *)
(* text node in its place; no empty text node is created.                  *)

\* the text node of walker.currentNode has been replaced in this call
ReplacedNow ==
  IF currentNode = NULL \/ currentNode > Len(pre) THEN FALSE
  ELSE node[currentNode].parentNode = NULL /\ pre[currentNode].parentNode # NULL

\* the nodes that stand in its place, in order
Replacement ==
  SelectSeq(node[pre[currentNode].parentNode].childNodes,
            LAMBDA k : k > Len(pre))

\* 0-based offset of the k-th replacement node in the original text
Offset(R, k) == Len(ConcatValues(node, DocOrderOfAll(node, SubSeq(R, 1, k - 1))))

C9_ReplacementShape ==
  ReplacedNow =>
    LET t == pre[currentNode].nodeValue
        R == Replacement
    IN /\ ConcatValues(node, DocOrderOfAll(node, R)) = t
       /\ \A k \in 1..Len(R) :
            LET off == Offset(R, k)
                txt == TextContent(node, R[k])
            IN IF IsMarker(node, R[k])
                 THEN /\ OccursAt(term, t, off)
                      /\ Len(txt) = Len(term)
                      /\ Len(node[R[k]].childNodes) = 1
                 ELSE /\ node[R[k]].nodeType = "text"
                      /\ txt # << >>
                      /\ \A i \in off..(off + Len(txt) - 1) : ~OccursAt(term, t, i)

\* two adjacent matches and two matches with a run between them
C9_Witness ==
  /\ ReplacedNow
  /\ LET R == Replacement
     IN /\ \E k \in 1..(Len(R) - 1) : IsMarker(node, R[k]) /\ IsMarker(node, R[k + 1])
        /\ \E k \in 1..(Len(R) - 2) :
             /\ IsMarker(node, R[k])
             /\ node[R[k + 1]].nodeType = "text"
             /\ IsMarker(node, R[k + 2])

(* C10: matching ignores letter case and a marker holds the matched slice  *)
(* in its original case: "Hello World" with term "world" becomes the text  *)
(* "Hello " followed by one marker containing "World".                     *)
IsHelloWorldCase ==
  /\ pc = "done"
  /\ traversed
  /\ pre[2].nodeValue = HelloWorld
  /\ term = world

C10_CaseInsensitiveOriginalCase ==
  /\ ReplacedNow =>
       LET t == pre[currentNode].nodeValue
           R == Replacement
       IN \A k \in 1..Len(R) :
            IsMarker(node, R[k]) =>
              TextContent(node, R[k])
                = Slice(t, Offset(R, k), Offset(R, k) + Len(term))
  /\ (pc = "done" /\ traversed /\ ~TermAbsent(pre, term)) => CreatedMarkers # {}
  /\ IsHelloWorldCase =>
       /\ Len(node[ROOT].childNodes) = 3
       /\ node[node[ROOT].childNodes[1]].nodeType = "text"
       /\ node[node[ROOT].childNodes[1]].nodeValue = <<"H", "e", "l", "l", "o", " ">>
       /\ IsMarker(node, node[ROOT].childNodes[2])
       /\ TextContent(node, node[ROOT].childNodes[2]) = <<"W", "o", "r", "l", "d">>

C10_Witness ==
  /\ IsHelloWorldCase
  /\ Cardinality(CreatedMarkers) = 1
  /\ TextContent(node, node[ROOT].childNodes[2]) = <<"W", "o", "r", "l", "d">>

(* C11: the term is matched literally: a marker is created only for a      *)
(* substring equal to the term character for character up to letter case,  *)
(* metacharacters included; with term "a.b" and text "a.b and axb" only    *)
(* "a.b" is wrapped.                                                       *)
EqualIgnoringCase(a, b) ==
  /\ Len(a) = Len(b)
  /\ \A k \in 1..Len(a) : ToUpperCase(a[k]) = ToUpperCase(b[k])

IsDotCase ==
  /\ pc = "done"
  /\ traversed
  /\ pre[2].nodeValue = DotText
  /\ term = DotTerm

C11_LiteralMatch ==
  /\ \A m \in CreatedMarkers : EqualIgnoringCase(TextContent(node, m), term)
  /\ IsDotCase =>
       /\ Cardinality(CreatedMarkers) = 1
       /\ IsMarker(node, node[ROOT].childNodes[1])
       /\ TextContent(node, node[ROOT].childNodes[1]) = <<"a", ".", "b">>
       /\ node[node[ROOT].childNodes[2]].nodeType = "text"
       /\ node[node[ROOT].childNodes[2]].nodeValue
            = <<" ", "a", "n", "d", " ", "a", "x", "b">>

C11_Witness ==
  /\ IsDotCase
  /\ Cardinality(CreatedMarkers) = 1
  /\ TextContent(node, node[ROOT].childNodes[1]) = <<"a", ".", "b">>

(* C12: at whatever point an exception interrupts the call, every text     *)
(* node under the root is either untouched or completely replaced by its   *)
(* fragment, and no text is lost.                                          *)
Untouched(n) ==
  /\ node[n] = pre[n]
  /\ n \in Range(node[pre[n].parentNode].childNodes)

\* n is detached and the new nodes standing at its place spell its text
FullyReplaced(n) ==
  LET p == pre[n].parentNode
      ks == pre[p].childNodes
      i == IndexOf(ks, n)
      R == SelectSeq(node[p].childNodes, LAMBDA k : k > Len(pre))
  IN /\ node[n].parentNode = NULL
     /\ R # << >>
     /\ node[p].childNodes = SubSeq(ks, 1, i - 1) \o R \o SubSeq(ks, i + 1, Len(ks))
     /\ \A k \in 1..Len(R) : node[R[k]].parentNode = p
     /\ ConcatValues(node, DocOrderOfAll(node, R)) = pre[n].nodeValue

PreTexts ==
  {n \in Range(DocOrder(pre, ROOT)) : pre[n].nodeType = "text"}

C12_NoHalfReplacedNode ==
  /\ \A n \in PreTexts : Untouched(n) \/ FullyReplaced(n)
  /\ TextContent(node, ROOT) = TextContent(pre, ROOT)

\* an exception after one replacement, with a further match left untouched
C12_Witness ==
  /\ pc = "done"
  /\ warned
  /\ ~traversed
  /\ \E n \in PreTexts : FullyReplaced(n)
  /\ \E n \in EligibleTexts(pre) :
       Untouched(n) /\ Occurs(term, pre[n].nodeValue)

(* C13: only text nodes change: every element that existed before keeps    *)
(* its parent, tag, class and its order among the old element siblings,    *)
(* and every new element is a marker span standing where the replaced      *)
(* text node was.                                                          *)
OldElements(tbl, ks) ==
  SelectSeq(ks, LAMBDA k : k <= Len(pre) /\ tbl[k].nodeType = "element")

C13_OnlyTextNodesChange ==
  /\ \A n \in 1..Len(pre) :
       pre[n].nodeType = "element" =>
         /\ node[n].parentNode = pre[n].parentNode
         /\ node[n].tagName = pre[n].tagName
         /\ node[n].className = pre[n].className
         /\ OldElements(node, node[n].childNodes) = OldElements(pre, pre[n].childNodes)
  /\ node[ROOT].parentNode = NULL
  /\ \A m \in (Len(pre) + 1)..Len(node) :
       node[m].nodeType = "element" =>
         /\ IsMarker(node, m)
         /\ node[m].parentNode \in {fragment, pre[currentNode].parentNode}
         /\ node[m].parentNode # fragment => FullyReplaced(currentNode)

\* a marker stands before an old element, where the text node was
C13_Witness ==
  /\ pc = "done"
  /\ traversed
  /\ Len(node[ROOT].childNodes) >= 3
  /\ IsMarker(node, node[ROOT].childNodes[1])
  /\ node[ROOT].childNodes[Len(node[ROOT].childNodes)] = 3
  /\ FullyReplaced(2)

(* C14: loading is sequenced eager, lazy, delayed: loadLazy starts only     *)
(* after loadEager has completed, highlighting starts only after           *)
(* loadSections(main) has completed and has returned before the header and *)
(* footer are loaded, and loadDelayed is called only after loadLazy has     *)
(* completed.                                                              *)
WasCalled(name) == \E i \in 1..Len(called) : called[i] = name

C14_EagerLazyDelayed ==
  /\ WasCalled("loadSections") =>
       firstSection = "done" /\ phase \notin {"page:start", "eager:await"}
  /\ pc # "idle" => sections = "done"
  /\ (WasCalled("loadHeader") \/ WasCalled("loadFooter")) => pc = "done"
  /\ WasCalled("loadDelayed") =>
       /\ WasCalled("loadHeader")
       /\ WasCalled("loadFooter")
       /\ WasCalled("loadFonts:lazy")
       /\ phase = "page:done"

C14_Witness ==
  /\ phase = "page:done"
  /\ WasCalled("loadDelayed")
  /\ CreatedMarkers # {}
  /\ sections = "done"

(* C15: a failure inside highlighting never stops the sequence: once       *)
(* loadSections has completed, loadLazy goes on to the header, footer,     *)
(* lazy styles and fonts, and loadPage calls loadDelayed.                  *)
C15_SequenceNeverStopped ==
  (phase = "lazy:await" /\ sections = "done")
    ~> (/\ WasCalled("loadHeader")
        /\ WasCalled("loadFooter")
        /\ WasCalled("loadCSS")
        /\ WasCalled("loadFonts:lazy")
        /\ WasCalled("loadDelayed"))

\* the page finished loading although highlighting had failed
C15_Witness ==
  /\ phase = "page:done"
  /\ warned
  /\ WasCalled("loadDelayed")


\* the walker loop is between two iterations, after at least one body ran
BetweenIterations == pc = "walk" /\ currentNode # ROOT

\* C16: highlightFromQuery terminates for every subtree and term: once the
\* walker's current text node has been replaced it is detached and nextNode()
\* returns null, so the outer loop ends; in the inner loop every match of the
\* (non-empty) term ends strictly after the position the scan started from;
\* and every call that was entered reaches its end.
C16_Terminates ==
  /\ [](BetweenIterations =>
          /\ node[currentNode].parentNode = NULL
          /\ NextNode(node, regex, currentNode) = NULL)
  /\ [](pc = "body" =>
          /\ regex # << >>
          /\ \A lastIndex \in 0..Len(node[currentNode].nodeValue) :
               LET matchStart == Exec(regex, node[currentNode].nodeValue, lastIndex)
               IN matchStart # -1 => matchStart + Len(regex) > lastIndex)
  /\ (pc = "entry") ~> (pc = "done")

\* a finished call that replaced a node with two matches while another
\* eligible text node with an occurrence stayed in the tree
C16_Witness ==
  /\ pc = "done"
  /\ traversed
  /\ ~warned
  /\ currentNode # ROOT
  /\ Len(highlights) >= 2
  /\ \E n \in EligibleTexts(node) : Occurs(term, node[n].nodeValue)

\* the call that just ended ran to its end with the term of the call before
\* it, which also ran to its end
SecondCallSameTerm ==
  /\ pc = "done"
  /\ traversed
  /\ ~warned
  /\ term # << >>
  /\ prev = term

\* C17: a second call on the same root with the same term is a no-op: it
\* creates no marker and leaves the subtree as the first call left it.
C17_SecondCallIsNoop ==
  SecondCallSameTerm => node = pre /\ highlights = << >>

----------------------------------------------------------------------------
(* blocks/recordings: debounce (recordings.js lines 82-88) *)

Ms == 2                 \* the delay `ms` of debounce, in ticks of the clock
MaxDebounceCalls == 4   \* calls of the debounced function that are observed

\* argument lists the debounced function is called with
Args == {<<"x">>, <<"y">>}

ClearTimeoutNothing(ts, id) == ts

\* clearTimeout(id): the pending timer with this id, if there is one, is
\* cancelled; clearTimeout(undefined) cancels nothing
ClearTimeout(ts, id) == {t \in ts : t.id # id}

\* setTimeout(() => fn(...args), ms) returning id
SetTimeout(ts, id, args, ms) ==
  ts \cup {[id |-> id, args |-> args, remaining |-> ms]}

\* the id setTimeout returns: one that no pending timer has and that differs
\* from the handle the closure still holds
NewTimerId(ts, held) ==
  Min({i \in 1..(Cardinality(ts) + 2) : i # held /\ \A t \in ts : t.id # i})

\* lines 84-87: the function debounce returns, called with args
Debounced(args) ==
  LET id == NewTimerId(timers, timeoutId)
  IN /\ timers' = SetTimeout(ClearTimeout(timers, timeoutId), id, args, Ms)
     /\ timeoutId' = id

\* a call of the debounced function by some caller
CallDebounced ==
  /\ phase = "debounce"
  /\ callCount < MaxDebounceCalls
  /\ \E args \in Args :
       /\ Debounced(args)
       /\ lastArgs' = args
  /\ callCount' = callCount + 1
  /\ sinceCall' = 0
  /\ bursts' = IF timers = {} THEN bursts + 1 ELSE bursts
  /\ UNCHANGED << runs, blockVars, hlVars, pageVars, uiVars >>

\* one tick of time passes; a timer that is due may still be waiting for the
\* event loop
Tick ==
  /\ phase \in {"debounce", "recordings", "events"}
  /\ \/ \E t \in timers : t.remaining > 0
     \/ callCount > 0 /\ sinceCall < Ms
  /\ timers' = {[t EXCEPT !.remaining = IF @ > 0 THEN @ - 1 ELSE 0] : t \in timers}
  /\ sinceCall' = IF callCount > 0 /\ sinceCall < Ms THEN sinceCall + 1 ELSE sinceCall
  /\ UNCHANGED << timeoutId, callCount, lastArgs, bursts, runs, blockVars,
                  hlVars, pageVars, uiVars >>

\* line 86: a due timer runs () => fn(...args); fn records its execution
TimerFires ==
  /\ phase = "debounce"
  /\ \E t \in timers :
       /\ t.remaining = 0
       /\ timers' = timers \ {t}
       /\ runs' = Append(runs, [args |-> t.args, last |-> lastArgs,
                                quiet |-> sinceCall])
  /\ UNCHANGED << timeoutId, callCount, sinceCall, lastArgs, bursts, blockVars,
                  hlVars, pageVars, uiVars >>

\* the other parts of the page are not running
NoHighlighter ==
  /\ InitWith({<< Element("MAIN", "", NULL, << >>) >>}, 0)
  /\ hash = FALSE
  /\ firstSection = "idle"
  /\ sections = "idle"
  /\ called = << >>

InitDebounce ==
  /\ NoHighlighter
  /\ phase = "debounce"
  /\ NoTimers
  /\ NoRecordings
  /\ NoBlocks

NextDebounce == CallDebounced \/ Tick \/ TimerFires

SpecDebounce == InitDebounce /\ [][NextDebounce]_vars

----------------------------------------------------------------------------
(* blocks/recordings: the list with sidebar (recordings.js lines 205-533) *)

\* a field the sheet row does not have
Missing == << "(undefined)" >>

\* String.prototype.toLowerCase on the characters of the model
ToLowerCase(c) ==
  CASE c = "A" -> "a" [] c = "B" -> "b" [] c = "X" -> "x" [] OTHER -> c

LowerCased(s) == [i \in 1..Len(s) |-> ToLowerCase(s[i])]

\* String.prototype.includes
Includes(text, q) ==
  \E i \in 0..(Len(text) - Len(q)) : Slice(text, i, i + Len(q)) = q

\* value || ''
OrEmpty(v) == IF v = Missing THEN << >> ELSE v

Digits == <<"0", "1", "2", "3", "4", "5", "6", "7", "8", "9">>

IsDigit(c) == \E d \in 1..10 : Digits[d] = c

DigitValue(c) == (CHOOSE d \in 1..10 : Digits[d] = c) - 1

RECURSIVE Decimal(_)
Decimal(s) ==
  IF s = << >> THEN 0
  ELSE Decimal(SubSeq(s, 1, Len(s) - 1)) * 10 + DigitValue(s[Len(s)])

\* Number(v) for the strings of the model: white space is trimmed, the empty
\* string is 0, a string of digits is its decimal value, anything else is NaN
ToNumber(v) ==
  LET t == Trim(v)
  IN IF \A i \in 1..Len(t) : IsDigit(t[i])
       THEN [isNaN |-> FALSE, num |-> Decimal(t)]
       ELSE [isNaN |-> TRUE, num |-> 0]

\* lines 205-210
GetSortDate(row) ==
  LET v == row.date
  IN IF v = Missing \/ v = << >> THEN 0
     ELSE IF ToNumber(v).isNaN THEN 0 ELSE ToNumber(v).num

EpochSerial == 25569   \* the Excel serial number of 1970-01-01

\* lines 213-219; the timestamp is kept in days (ms / 86 400 000)
GetDateTimestamp(row) ==
  LET v == row.date
  IN IF v = Missing \/ v = << >> THEN [isNull |-> TRUE, days |-> 0]
     ELSE IF ToNumber(v).isNaN THEN [isNull |-> TRUE, days |-> 0]
     ELSE [isNull |-> FALSE, days |-> ToNumber(v).num - EpochSerial]

\* lines 222-228; msAgo in days, NULL for null
DATE_RANGES ==
  << [value |-> "all", msAgo |-> NULL],
     [value |-> "1m", msAgo |-> 30],
     [value |-> "3m", msAgo |-> 3 * 30],
     [value |-> "6m", msAgo |-> 6 * 30],
     [value |-> "1y", msAgo |-> 365] >>

TAG_OTHER == <<"O", "t", "h", "e", "r">>

\* lines 233-236
GetRowTag(row) ==
  LET t == Trim(OrEmpty(row.tag))
  IN IF t = << >> THEN TAG_OTHER ELSE t

\* lines 239-245, as the set of checkbox values
GetUniqueTags(data) == {GetRowTag(data[i]) : i \in 1..Len(data)}

\* the letters of the model in collation order
Alphabet == <<"a", "b", "x">>

BaseRank(c) == CHOOSE k \in 1..Len(Alphabet) : Alphabet[k] = ToLowerCase(c)

\* a.localeCompare(b, undefined, { sensitivity: 'base' }) on words over the
\* letters of the model: -1, 0 or 1
RECURSIVE LocaleCompare(_, _)
LocaleCompare(a, b) ==
  IF a = << >> /\ b = << >> THEN 0
  ELSE IF a = << >> THEN -1
  ELSE IF b = << >> THEN 1
  ELSE IF BaseRank(Head(a)) < BaseRank(Head(b)) THEN -1
  ELSE IF BaseRank(Head(a)) > BaseRank(Head(b)) THEN 1
  ELSE LocaleCompare(Tail(a), Tail(b))

\* lines 279-297: the comparator list.sort is given for each sort option
Compare(sortBy, a, b) ==
  LET da == GetSortDate(a)
      db == GetSortDate(b)
      byTitle == LocaleCompare(OrEmpty(a.title), OrEmpty(b.title))
  IN CASE sortBy = "date-desc" -> IF da # db THEN db - da ELSE byTitle
       [] sortBy = "date-asc" -> IF da # db THEN da - db ELSE byTitle
       [] sortBy = "title-asc" -> byTitle
       [] sortBy = "title-desc" -> LocaleCompare(OrEmpty(b.title), OrEmpty(a.title))
       [] OTHER -> 0

\* x put into a sorted list, behind the rows it does not have to precede
RECURSIVE Insert(_, _, _)
Insert(sorted, x, sortBy) ==
  IF sorted = << >> THEN << x >>
  ELSE IF Compare(sortBy, Head(sorted), x) > 0 THEN << x >> \o sorted
  ELSE << Head(sorted) >> \o Insert(Tail(sorted), x, sortBy)

\* Array.prototype.sort with the comparator of sortBy: a stable sort
RECURSIVE Sort(_, _)
Sort(list, sortBy) ==
  IF list = << >> THEN << >>
  ELSE Insert(Sort(SubSeq(list, 1, Len(list) - 1), sortBy), list[Len(list)], sortBy)

Now == 20763   \* Date.now() in days since 1970-01-01 (2026-11-06)

\* lines 248-305, on the fields of the block it reads
GetFilteredAndSortedData(data, searchQuery, sortBy, dateRange, selectedTags) ==
  LET query == LowerCased(Trim(searchQuery))
      searched ==
        IF query # << >>
          THEN SelectSeq(data, LAMBDA row :
                 \/ Includes(LowerCased(OrEmpty(row.title)), query)
                 \/ Includes(LowerCased(OrEmpty(row.speaker)), query))
          ELSE data
      range == CHOOSE r \in Range(DATE_RANGES) : r.value = dateRange
      ranged ==
        IF dateRange # "all" /\ range.msAgo # NULL
          THEN SelectSeq(searched, LAMBDA row :
                 /\ ~GetDateTimestamp(row).isNull
                 /\ GetDateTimestamp(row).days >= Now - range.msAgo)
          ELSE searched
      tagged ==
        IF selectedTags # {}
          THEN SelectSeq(ranged, LAMBDA row : GetRowTag(row) \in selectedTags)
          ELSE ranged
  IN Sort(tagged, sortBy)

Row(title, speaker, date, tag) ==
  [title |-> title, speaker |-> speaker, date |-> date, tag |-> tag]

\* the sheets fetched: rows with and without a date, equal dates, titles that
\* differ in case only, tags with and without white space
Sheets ==
  { << Row(<<"b">>, <<"x">>, <<"4", "6", "3", "2", "2">>, <<"a", "i">>),
       Row(<<"A">>, <<"a", "b">>, << >>, << >>),
       Row(<<"a">>, << >>, <<"4", "6", "2", "3", "2">>, <<"a", "i", " ">>),
       Row(<<"a", "b">>, <<"b">>, <<"n", "/", "a">>, <<" ">>),
       Row(<<"B">>, <<"a">>, <<"4", "6", "2", "7", "2">>, <<"m", "l">>),
       Row(<<"a">>, <<"x">>, <<"4", "6", "2", "3", "2">>, Missing) >>,
    << Row(<<"b", "a">>, Missing, Missing, << >>),
       Row(<<"a">>, <<"B">>, <<"4", "6", "1", "3", "2">>, << >>),
       Row(<<"A", "b">>, <<"x">>, <<"4", "5", "9", "3", "2">>, << >>),
       Row(Missing, <<"a">>, <<"4", "6", "3", "3", "0">>, << >>) >> }

\* what the visitor types into the search field
SearchTexts == {<< >>, <<"a">>, <<"B", " ">>, <<"x">>}

SortOptions == {"date-desc", "date-asc", "title-asc", "title-desc"}

\* lines 355-372: the list is emptied and filled with one card per row
UpdateRecordingsList(data, searchQuery, sortBy, dateRange, selectedTags) ==
  GetFilteredAndSortedData(data, searchQuery, sortBy, dateRange, selectedTags)

\* lines 501-533 (renderFromSheet) with createSidebar
InitRecordings ==
  /\ NoHighlighter
  /\ phase = "recordings"
  /\ NoTimers
  /\ NoBlocks
  /\ recordingsData \in Sheets
  /\ recordingsSearchQuery = << >>
  /\ recordingsSortBy = "date-desc"
  /\ recordingsDateRange = "all"
  /\ recordingsSelectedTags = {}
  /\ searchValue = << >>
  /\ sortValue = "date-desc"
  /\ radioValue = "all"
  /\ checked = {}
  /\ rendered = UpdateRecordingsList(recordingsData, << >>, "date-desc", "all", {})

\* line 470: the visitor edits the search field; `input` calls applySearch()
Input ==
  /\ phase = "recordings"
  /\ \E v \in SearchTexts :
       /\ v # searchValue
       /\ searchValue' = v
  /\ Debounced(<< >>)
  /\ UNCHANGED << callCount, sinceCall, lastArgs, bursts, runs, recordingsData,
                  recordingsSearchQuery, recordingsSortBy, recordingsDateRange,
                  recordingsSelectedTags, sortValue, radioValue, checked,
                  rendered, hlVars, pageVars, uiVars >>

\* lines 465-468: the timer of applySearch runs its function
FireSearch ==
  /\ phase = "recordings"
  /\ \E t \in timers :
       /\ t.remaining = 0
       /\ timers' = timers \ {t}
  /\ recordingsSearchQuery' = searchValue
  /\ rendered' = UpdateRecordingsList(recordingsData, recordingsSearchQuery',
                   recordingsSortBy, recordingsDateRange, recordingsSelectedTags)
  /\ UNCHANGED << timeoutId, callCount, sinceCall, lastArgs, bursts, runs,
                  recordingsData, recordingsSortBy, recordingsDateRange,
                  recordingsSelectedTags, searchValue, sortValue, radioValue,
                  checked, hlVars, pageVars, uiVars >>

\* lines 472-475: another option of the sort select is chosen
SortChange ==
  /\ phase = "recordings"
  /\ \E v \in SortOptions :
       /\ v # sortValue
       /\ sortValue' = v
  /\ recordingsSortBy' = sortValue'
  /\ rendered' = UpdateRecordingsList(recordingsData, recordingsSearchQuery,
                   recordingsSortBy', recordingsDateRange, recordingsSelectedTags)
  /\ UNCHANGED << timerVars, recordingsData, recordingsSearchQuery,
                  recordingsDateRange, recordingsSelectedTags, searchValue,
                  radioValue, checked, hlVars, pageVars, uiVars >>

\* lines 477-482: another date-range radio is checked
DateRangeChange ==
  /\ phase = "recordings"
  /\ \E r \in Range(DATE_RANGES) :
       /\ r.value # radioValue
       /\ radioValue' = r.value
  /\ recordingsDateRange' = radioValue'
  /\ rendered' = UpdateRecordingsList(recordingsData, recordingsSearchQuery,
                   recordingsSortBy, recordingsDateRange', recordingsSelectedTags)
  /\ UNCHANGED << timerVars, recordingsData, recordingsSearchQuery,
                  recordingsSortBy, recordingsSelectedTags, searchValue,
                  sortValue, checked, hlVars, pageVars, uiVars >>

ToggleTagAddOnly(set, value, isChecked) == set \cup {value}

\* lines 486-489: the selected set after the checkbox `value` changed
ToggleTag(set, value, isChecked) ==
  IF isChecked THEN set \cup {value} ELSE set \ {value}

\* lines 484-492: a tag checkbox is toggled
TagToggle ==
  /\ phase = "recordings"
  /\ \E tag \in GetUniqueTags(recordingsData) :
       /\ checked' = IF tag \in checked THEN checked \ {tag} ELSE checked \cup {tag}
       /\ recordingsSelectedTags' =
            ToggleTag(recordingsSelectedTags, tag, tag \in checked')
  /\ rendered' = UpdateRecordingsList(recordingsData, recordingsSearchQuery,
                   recordingsSortBy, recordingsDateRange, recordingsSelectedTags')
  /\ UNCHANGED << timerVars, recordingsData, recordingsSearchQuery,
                  recordingsSortBy, recordingsDateRange, searchValue, sortValue,
                  radioValue, hlVars, pageVars, uiVars >>

NextRecordings ==
  Input \/ FireSearch \/ SortChange \/ DateRangeChange \/ TagToggle \/ Tick

SpecRecordings == InitRecordings /\ [][NextRecordings]_vars

----------------------------------------------------------------------------
(* Claims about blocks/recordings *)

\* C18: the debounced function runs fn only when ms have passed without a
\* further call: at most one timer is pending at any time; every execution of
\* fn comes at least ms after the last call and gets the arguments of that
\* call; calls closer together than ms fall into one burst (the later call
\* finds the timer of the earlier one pending), and each burst leads to
\* exactly one execution of fn.
C18_Debounce ==
  /\ Cardinality(timers) <= 1
  /\ \A k \in 1..Len(runs) :
       /\ runs[k].quiet >= Ms
       /\ runs[k].args = runs[k].last
  /\ (callCount > 0 /\ sinceCall < Ms) => timers # {}
  /\ Len(runs) + Cardinality(timers) = bursts

\* three calls in two bursts have led to two executions
C18_Witness ==
  /\ phase = "debounce"
  /\ callCount = 3
  /\ bursts = 2
  /\ Len(runs) = 2
  /\ timers = {}

\* C19: under every interleaving of search input, sort, date-range and tag
\* changes and timer firings, the rendered list is getFilteredAndSortedData
\* of the current search text, sort option, date range and selected tags
\* whenever no debounce timer is pending; while one is pending the list may
\* be the one for the previous search text instead.
C19_RenderedMatchesControls ==
  phase = "recordings" =>
    /\ timers = {} =>
         rendered = GetFilteredAndSortedData(recordingsData, searchValue,
                      sortValue, radioValue, checked)
    /\ timers # {} =>
         \E text \in {searchValue, recordingsSearchQuery} :
           rendered = GetFilteredAndSortedData(recordingsData, text,
                        sortValue, radioValue, checked)

\* every control has been used, no timer is pending, some rows are shown
\* and some are filtered out
C19_Witness ==
  /\ phase = "recordings"
  /\ timers = {}
  /\ timeoutId # NULL
  /\ Trim(searchValue) # << >>
  /\ sortValue # "date-desc"
  /\ radioValue # "all"
  /\ checked # {}
  /\ rendered # << >>
  /\ Len(rendered) < Len(recordingsData)

\* the row has a numeric date
HasDate(row) ==
  /\ row.date # Missing
  /\ Trim(row.date) # << >>
  /\ \A i \in 1..Len(row.date) : IsDigit(row.date[i])

\* C20: in both date sort orders, the rows without a (numeric) date come
\* after all rows that have one.
C20_UndatedLast ==
  (phase = "recordings" /\ sortValue \in {"date-desc", "date-asc"}) =>
    \A i, j \in 1..Len(rendered) :
      (i < j /\ HasDate(rendered[j])) => HasDate(rendered[i])

----------------------------------------------------------------------------
(* blocks/events: filterEvents and the carousel (events.js) *)

MaxRows == 12       \* the block has at most this many authored rows
maxEvents == 10     \* line 33
cardsPerSlide == 4  \* line 300

\* a Date is its time in hours; a date text is the number of its day, and
\* new Date(text) is local midnight of that day; any other text, the empty
\* one included, gives an Invalid Date
NewDate(text) ==
  IF text # << >> /\ \A i \in 1..Len(text) : IsDigit(text[i])
    THEN [valid |-> TRUE, time |-> Decimal(text) * 24]
    ELSE [valid |-> FALSE, time |-> 0]

\* dateText.replace(/<[^>]*>/g, '')
RECURSIVE StripTags(_)
StripTags(s) ==
  IF \E i \in 1..Len(s) : s[i] = "<" /\ \E j \in (i + 1)..Len(s) : s[j] = ">"
    THEN LET i == Min({k \in 1..Len(s) :
                         s[k] = "<" /\ \E j \in (k + 1)..Len(s) : s[j] = ">"})
             j == Min({k \in (i + 1)..Len(s) : s[k] = ">"})
         IN SubSeq(s, 1, i - 1) \o StripTags(SubSeq(s, j + 1, Len(s)))
    ELSE s

NoDate == [isNull |-> TRUE, time |-> 0]

\* lines 8-25
ParseEventDate(dateText) ==
  IF dateText = << >> THEN NoDate
  ELSE LET cleanText == Trim(StripTags(dateText))
           date == NewDate(cleanText)
       IN IF date.valid THEN [isNull |-> FALSE, time |-> date.time] ELSE NoDate

StartOfDayNone(t) == t

\* now.setHours(0, 0, 0, 0)
StartOfDay(t) == t - (t % 24)

\* list.sort by an integer key (a stable sort): the row at i goes behind the
\* rows with a smaller key and the earlier rows with the same key
SortedByKey(list, key) ==
  LET n == Len(list)
      Pos(i) == Cardinality({j \in 1..n :
                   key[j] < key[i] \/ (key[j] = key[i] /\ j < i)}) + 1
  IN [p \in 1..n |-> list[CHOOSE i \in 1..n : Pos(i) = p]]

\* array.slice(0, n)
Take(list, n) == SubSeq(list, 1, IF Len(list) < n THEN Len(list) ELSE n)

\* lines 30-55
FilterEvents(events, newDate) ==
  LET now == StartOfDay(newDate)
      future == SelectSeq(events, LAMBDA e : ~e.date.isNull /\ e.date.time >= now)
      futureEvents == SortedByKey(future, [i \in 1..Len(future) |-> future[i].date.time])
      past == SelectSeq(events, LAMBDA e : ~e.date.isNull /\ e.date.time < now)
      pastEvents == SortedByKey(past, [i \in 1..Len(past) |-> 0 - past[i].date.time])
      result == Take(futureEvents, maxEvents)
  IN IF Len(result) < maxEvents
       THEN result \o Take(pastEvents, maxEvents - Len(result))
       ELSE result

\* String(number) and parseInt(string, 10) on the slide indices
NumberToString(i) == << Digits[i + 1] >>

ParseInt(str) == Decimal(str)

SlideWidth == 2   \* slides[i].offsetLeft is i * SlideWidth

OffsetLeft(idx) == idx * SlideWidth

\* lines 75-103 for a block with n slides: the new state of the block
UpdateCarousel(n, slideIndex) ==
  LET maxIndex == n - 1
      normalizedIndex == IF slideIndex < 0 THEN maxIndex
                         ELSE IF slideIndex > maxIndex THEN 0
                         ELSE slideIndex
  IN [scrollTo |-> OffsetLeft(normalizedIndex),
      atStart |-> normalizedIndex = 0,
      atEnd |-> normalizedIndex = maxIndex,
      currentSlide |-> NumberToString(normalizedIndex)]

Abs(x) == IF x < 0 THEN 0 - x ELSE x

\* lines 148-157: the first slide whose left edge is closest to scrollLeft
ClosestIndex(n, left) ==
  Min({idx \in 0..(n - 1) :
         \A other \in 0..(n - 1) :
           Abs(OffsetLeft(idx) - left) <= Abs(OffsetLeft(other) - left)})

Today == 20   \* the day of new Date()

\* the text of a day, with the white space and markup authors leave around it
DayText(day, k) ==
  LET digits == << Digits[(day \div 10) + 1], Digits[(day % 10) + 1] >>
  IN CASE k % 3 = 0 -> << " " >> \o digits \o << " " >>
       [] k % 3 = 1 -> << "<", "b", ">" >> \o digits \o << "<", "/", "b", ">" >>
       [] OTHER -> digits

\* row k of a block: days spread around today, moved back by `shift`; with
\* `gaps` some rows have no body, no date element, an empty or an unreadable
\* date
EventRow(k, shift, gaps) ==
  LET day == Today - shift + ((k * 3) % 7)
  IN CASE gaps /\ k % 5 = 0 -> [id |-> k, hasBody |-> FALSE, hasDate |-> FALSE, dateText |-> << >>]
       [] gaps /\ k % 5 = 1 -> [id |-> k, hasBody |-> TRUE, hasDate |-> FALSE, dateText |-> << >>]
       [] gaps /\ k % 5 = 2 -> [id |-> k, hasBody |-> TRUE, hasDate |-> TRUE, dateText |-> << " " >>]
       [] gaps /\ k % 5 = 3 -> [id |-> k, hasBody |-> TRUE, hasDate |-> TRUE, dateText |-> << "T", "B", "D" >>]
       [] OTHER -> [id |-> k, hasBody |-> TRUE, hasDate |-> TRUE, dateText |-> DayText(day, k)]

Shifts == {0, 3, 4, 7}

EventBlocks ==
  {[k \in 1..n |-> EventRow(k, shift, gaps)] :
     n \in 0..MaxRows, shift \in Shifts, gaps \in BOOLEAN}
    \cup {[k \in 1..n |-> EventRow(k, 7, k <= 5)] : n \in 6..MaxRows}

InitEvents ==
  /\ NoHighlighter
  /\ phase = "events"
  /\ NoTimers
  /\ NoRecordings
  /\ evNow \in {Today * 24, Today * 24 + 15}
  /\ evRows \in EventBlocks
  /\ evPc = "start"
  /\ allEvents = << >>
  /\ filteredEvents = << >>
  /\ evBlock = "rows"
  /\ evCards = << >>
  /\ slideCount = 0
  /\ currentSlide = << >>
  /\ atStart = FALSE
  /\ atEnd = FALSE
  /\ evBound = FALSE
  /\ scrollLeft = 0
  /\ scrollTarget = 0
  /\ scrollTimeout = NULL
  /\ evLast = [kind |-> "none", from |-> 0]
  /\ NoNav
  /\ NoComd

\* lines 172-174: decorate starts and waits for the placeholders
DecorateEvents ==
  /\ phase = "events"
  /\ evPc = "start"
  /\ evPc' = "await"
  /\ UNCHANGED << evNow, evRows, allEvents, filteredEvents, evBlock, evCards,
                  slideCount, currentSlide, atStart, atEnd, evBound, scrollLeft,
                  scrollTarget, scrollTimeout, evLast, hlVars, pageVars, recVars, navVars, comdVars >>

\* lines 357-360: fetchPlaceholders rejected; the error is logged
PlaceholdersFail ==
  /\ phase = "events"
  /\ evPc = "await"
  /\ evPc' = "failed"
  /\ UNCHANGED << evNow, evRows, allEvents, filteredEvents, evBlock, evCards,
                  slideCount, currentSlide, atStart, atEnd, evBound, scrollLeft,
                  scrollTarget, scrollTimeout, evLast, hlVars, pageVars, recVars, navVars, comdVars >>

\* the id of the "See more" card
SeeMore == 0

\* lines 176-356: the rows become cards, the cards are filtered, the "See
\* more" card is added and the carousel is built
BuildCarousel ==
  /\ phase = "events"
  /\ evPc = "await"
  /\ LET events == [k \in 1..Len(evRows) |->
                      [element |-> evRows[k].id,
                       date |-> IF evRows[k].hasBody /\ evRows[k].hasDate
                                  THEN ParseEventDate(evRows[k].dateText)
                                  ELSE NoDate]]
         filtered == FilterEvents(events, evNow)
         withSeeMore == Append(filtered, [element |-> SeeMore, date |-> NoDate])
         slides == (Len(withSeeMore) + cardsPerSlide - 1) \div cardsPerSlide
         updated == UpdateCarousel(slides, 0)
     IN /\ allEvents' = events
        /\ filteredEvents' = filtered
        /\ IF Len(withSeeMore) = 0
             THEN /\ evBlock' = "empty-message"
                  /\ UNCHANGED << evCards, slideCount, currentSlide, atStart,
                                  atEnd, evBound, scrollTarget >>
             ELSE /\ evBlock' = "carousel"
                  /\ evCards' = [i \in 1..Len(withSeeMore) |-> withSeeMore[i].element]
                  /\ slideCount' = slides
                  /\ evBound' = (slides > 1)
                  /\ IF slides > 1
                       THEN /\ currentSlide' = updated.currentSlide
                            /\ atStart' = updated.atStart
                            /\ atEnd' = updated.atEnd
                            /\ scrollTarget' = updated.scrollTo
                       ELSE /\ currentSlide' = << "0" >>
                            /\ atStart' = TRUE
                            /\ UNCHANGED << atEnd, scrollTarget >>
  /\ evPc' = "done"
  /\ UNCHANGED << evNow, evRows, scrollLeft, scrollTimeout, evLast,
                  hlVars, pageVars, recVars, navVars, comdVars >>

\* the value read at lines 114 and 121
CurrentOrZero == ParseInt(IF currentSlide = << >> THEN << "0" >> ELSE currentSlide)

\* the click listener of a nav button moving by delta (lines 113-116, 120-123)
NavClick(kind, delta) ==
  /\ phase = "events"
  /\ evBound
  /\ LET current == CurrentOrZero
         updated == UpdateCarousel(slideCount, current + delta)
     IN /\ currentSlide' = updated.currentSlide
        /\ atStart' = updated.atStart
        /\ atEnd' = updated.atEnd
        /\ scrollTarget' = updated.scrollTo
        /\ evLast' = [kind |-> kind, from |-> current]
  /\ UNCHANGED << evNow, evRows, evPc, allEvents, filteredEvents, evBlock,
                  evCards, slideCount, evBound, scrollLeft, scrollTimeout,
                  hlVars, pageVars, recVars, navVars, comdVars >>

PrevClick == NavClick("previous", -1)

NextClick == NavClick("next", 1)

\* lines 127-135: ArrowLeft and ArrowRight click the buttons; other keys do
\* nothing
KeyDown ==
  \E key \in {"ArrowLeft", "ArrowRight"} :
    IF key = "ArrowLeft" THEN PrevClick ELSE NextClick

ScrollMs == 1   \* the delay of line 164, in ticks

\* lines 141-143: the container scrolls (a swipe, or the smooth scrolling
\* started by scrollTo) and the listener arms its timer again
ContainerScroll ==
  /\ phase = "events"
  /\ evBound
  /\ \E left \in 0..OffsetLeft(slideCount - 1) :
       /\ left # scrollLeft
       /\ scrollLeft' = left
  /\ LET id == NewTimerId(timers, scrollTimeout)
     IN /\ timers' = SetTimeout(ClearTimeout(timers, scrollTimeout), id, << >>, ScrollMs)
        /\ scrollTimeout' = id
  /\ UNCHANGED << timeoutId, callCount, sinceCall, lastArgs, bursts, runs,
                  blockVars, evNow, evRows, evPc, allEvents, filteredEvents,
                  evBlock, evCards, slideCount, currentSlide, atStart, atEnd,
                  evBound, scrollTarget, evLast, hlVars, pageVars, navVars, comdVars >>

\* lines 143-164: the timer of the scroll listener runs
ScrollTimerFires ==
  /\ phase = "events"
  /\ \E t \in timers :
       /\ t.remaining = 0
       /\ timers' = timers \ {t}
  /\ LET closestIndex == ClosestIndex(slideCount, scrollLeft)
     IN /\ atStart' = (closestIndex = 0)
        /\ atEnd' = (closestIndex = slideCount - 1)
        /\ currentSlide' = NumberToString(closestIndex)
  /\ evLast' = [kind |-> "none", from |-> 0]
  /\ UNCHANGED << timeoutId, callCount, sinceCall, lastArgs, bursts, runs,
                  blockVars, evNow, evRows, evPc, allEvents, filteredEvents,
                  evBlock, evCards, slideCount, evBound, scrollLeft,
                  scrollTarget, scrollTimeout, hlVars, pageVars, navVars, comdVars >>

NextEvents ==
  \/ DecorateEvents
  \/ PlaceholdersFail
  \/ BuildCarousel
  \/ PrevClick
  \/ NextClick
  \/ KeyDown
  \/ ContainerScroll
  \/ ScrollTimerFires
  \/ Tick

SpecEvents == InitEvents /\ [][NextEvents]_vars

----------------------------------------------------------------------------
(* Claims about blocks/events *)

\* the event has a date on or after the start of the day of evNow
IsUpcoming(e) == ~e.date.isNull /\ e.date.time >= evNow - (evNow % 24)

\* the event has a date before the start of the day of evNow
IsPast(e) == ~e.date.isNull /\ e.date.time < evNow - (evNow % 24)

CountOf(events, P(_)) == Cardinality({i \in 1..Len(events) : P(events[i])})

HasADate(e) == ~e.date.isNull

\* C21: filterEvents returns at most 10 events: the upcoming ones (date on
\* or after the start of today), earliest first, then, only when fewer than
\* 10 are upcoming, the most recent past ones, latest first, until 10 are
\* reached; an event without a date is never returned and none is returned
\* twice.
C21_FilterEvents ==
  (phase = "events" /\ evPc = "done") =>
    LET r == filteredEvents
        n == Len(r)
        upcoming == CountOf(allEvents, IsUpcoming)
        dated == CountOf(allEvents, HasADate)
    IN /\ n <= 10
       /\ n = IF dated < 10 THEN dated ELSE 10
       /\ CountOf(r, IsUpcoming) = IF upcoming < 10 THEN upcoming ELSE 10
       /\ \A i \in 1..n : HasADate(r[i]) /\ \E k \in 1..Len(allEvents) : allEvents[k] = r[i]
       /\ \A i, j \in 1..n : i < j =>
            /\ r[i].element # r[j].element
            /\ IsUpcoming(r[i]) \/ IsPast(r[j])
            /\ IsUpcoming(r[j]) => r[i].date.time <= r[j].date.time
            /\ IsPast(r[i]) => r[i].date.time >= r[j].date.time
       /\ \A k \in 1..Len(allEvents) :
            (\A i \in 1..n : r[i].element # allEvents[k].element) =>
              \A i \in 1..n :
                /\ (IsUpcoming(allEvents[k]) /\ IsUpcoming(r[i])) =>
                     r[i].date.time <= allEvents[k].date.time
                /\ (IsPast(allEvents[k]) /\ IsPast(r[i])) =>
                     r[i].date.time >= allEvents[k].date.time

\* ten events were returned, upcoming ones (one of them dated today, after
\* midnight has passed) and past ones, and a past event was left out
C21_Witness ==
  /\ phase = "events"
  /\ evPc = "done"
  /\ Len(filteredEvents) = 10
  /\ evNow % 24 # 0
  /\ \E i \in 1..10 : filteredEvents[i].date.time = evNow - (evNow % 24)
  /\ \E i \in 1..10 : IsPast(filteredEvents[i])
  /\ \E k \in 1..Len(allEvents) :
       /\ IsPast(allEvents[k])
       /\ \A i \in 1..10 : filteredEvents[i].element # allEvents[k].element

\* C22: when no authored event passes filterEvents, the block shows the
\* message 'No events available at this time.' and no carousel.
C22_EmptyMessage ==
  (phase = "events" /\ evPc = "done" /\ filteredEvents = << >>) =>
    evBlock = "empty-message"

\* C23: once decorated, and after any previous/next clicks, arrow keys and
\* scroll updates, the stored slide index is an integer in 0..n-1, previous
\* from slide 0 has gone to slide n-1 and next from slide n-1 to slide 0,
\* and the block has at-start exactly at index 0 and at-end exactly at
\* index n-1.
C23_CarouselIndex ==
  (phase = "events" /\ evPc = "done" /\ evBlock = "carousel") =>
    /\ currentSlide # << >>
    /\ \A i \in 1..Len(currentSlide) : IsDigit(currentSlide[i])
    /\ LET index == Decimal(currentSlide)
       IN /\ index \in 0..(slideCount - 1)
          /\ (evLast.kind = "previous" /\ evLast.from = 0) => index = slideCount - 1
          /\ (evLast.kind = "next" /\ evLast.from = slideCount - 1) => index = 0
          /\ atStart <=> index = 0
          /\ atEnd <=> index = slideCount - 1

----------------------------------------------------------------------------
(* blocks/header: toggleAllNavSections, toggleMenu, closeOnEscape,          *)
(* closeOnFocusLost, openOnKeydown and the listeners decorate installs      *)

\* the number of top-level sections of the nav
MaxSections == 3

\* line 270: the li elements below .nav-sections
NavSections == 1..MaxSections

\* line 273: the sections with a nested list get the class nav-drop; here
\* every section but the last has one
NavDrops == 1..(MaxSections - 1)

\* toggleAllNavSections with its loop body left out
ToggleAllNavSectionsNone(navSections, expanded) == navSections

\* lines 60-64: every section gets the same aria-expanded value
ToggleAllNavSections(navSections, expanded) ==
  [s \in DOMAIN navSections |-> expanded]

\* the default value of the parameter expanded, as setAttribute stores it
DefaultExpanded == "false"

\* line 75 without the test of the media query
OverflowYAnyWidth(expanded, matches) == IF expanded THEN "" ELSE "hidden"

\* line 75: the value given to document.body.style.overflowY
OverflowY(expanded, matches) == IF expanded \/ matches THEN "" ELSE "hidden"

\* lines 96-104 with the listeners never removed
ListeningAlways(expanded, matches) == TRUE

\* lines 96-104: the Escape and focusout listeners are added (TRUE) or
\* removed (FALSE)
Listening(expanded, matches) == ~expanded \/ matches

\* forceExpanded of toggleMenu: << >> is null, << b >> is the boolean b
NoForce == << >>

\* lines 72-105: toggleMenu, under the media query state matches
ToggleMenu(forceExpanded, matches) ==
  LET expanded == IF forceExpanded # NoForce THEN ~forceExpanded[1] ELSE navExpanded
  IN /\ overflowY' = OverflowY(expanded, matches)
     /\ navExpanded' = ~expanded
     /\ sectionExpanded' =
          ToggleAllNavSections(sectionExpanded,
                               IF expanded \/ matches THEN "false" ELSE "true")
     /\ buttonLabel' = IF expanded THEN "Open navigation" ELSE "Close navigation"
     /\ dropsFocusable' = matches
     /\ escapeListener' = Listening(expanded, matches)
     /\ focusoutListener' = Listening(expanded, matches)

\* the elements that can hold the focus
Outside == [kind |-> "outside", section |-> 0]

HamburgerButton == [kind |-> "button", section |-> 0]

SectionItem(s) == [kind |-> "li", section |-> s]

SectionLink(s) == [kind |-> "a", section |-> s]

\* the handler that ran last, and what it found
Ran(kind, s, expanded) ==
  [kind |-> kind, section |-> s, expanded |-> expanded, desktop |-> desktop]

\* lines 51-53 and 85: a focused nav-drop gets openOnKeydown while the focus
\* listener is on it
FocusNavSection(target) ==
  IF target.kind = "li" /\ dropsFocusable
    THEN keydownBound \cup {target.section}
    ELSE keydownBound

\* line 12: the first section with aria-expanded="true", 0 when there is none
NavSectionExpanded ==
  IF \E s \in NavSections : sectionExpanded[s] = "true"
    THEN CHOOSE s \in NavSections :
           /\ sectionExpanded[s] = "true"
           /\ \A t \in NavSections : sectionExpanded[t] = "true" => s <= t
    ELSE 0

InitNav ==
  /\ NoHighlighter
  /\ phase = "nav"
  /\ NoTimers
  /\ NoRecordings
  /\ NoEvents
  /\ NoComd
  /\ navPc = "start"
  /\ desktop \in BOOLEAN
  /\ navExpanded = FALSE
  /\ overflowY = ""
  /\ buttonLabel = "Open navigation"
  /\ sectionExpanded = [s \in NavSections |-> "none"]
  /\ escapeListener = FALSE
  /\ focusoutListener = FALSE
  /\ dropsFocusable = FALSE
  /\ keydownBound = {}
  /\ activeElement = Outside
  /\ navLast = [kind |-> "none", section |-> 0, expanded |-> FALSE, desktop |-> FALSE]

\* lines 245-307: decorate builds the nav, sets aria-expanded="false" and
\* calls toggleMenu(nav, navSections, isDesktop.matches)
DecorateNav ==
  /\ phase = "nav"
  /\ navPc = "start"
  /\ navPc' = "done"
  /\ ToggleMenu(<< desktop >>, desktop)
  /\ navLast' = Ran("decorate", 0, FALSE)
  /\ UNCHANGED << desktop, keydownBound, activeElement,
                  hlVars, pageVars, recVars, eventsVars,
                  comdVars >>

\* line 290: a click on the hamburger
HamburgerClick ==
  /\ phase = "nav"
  /\ navPc = "done"
  /\ ToggleMenu(NoForce, desktop)
  /\ navLast' = Ran("hamburger", 0, navExpanded)
  /\ UNCHANGED << navPc, desktop, keydownBound, activeElement,
                  hlVars, pageVars, recVars, eventsVars,
                  comdVars >>

\* lines 8-23: Escape is pressed; closeOnEscape runs if it listens
EscapePress ==
  /\ phase = "nav"
  /\ navPc = "done"
  /\ navLast' = Ran("escape", NavSectionExpanded, navExpanded)
  /\ IF escapeListener /\ NavSectionExpanded # 0 /\ desktop
       THEN LET target == SectionItem(NavSectionExpanded)
                focusable == NavSectionExpanded \in NavDrops /\ dropsFocusable
            IN /\ sectionExpanded' =
                    ToggleAllNavSections(sectionExpanded, DefaultExpanded)
               /\ activeElement' = IF focusable THEN target ELSE activeElement
               /\ keydownBound' =
                    IF focusable THEN FocusNavSection(target) ELSE keydownBound
               /\ UNCHANGED << navExpanded, overflowY, buttonLabel,
                               escapeListener, focusoutListener, dropsFocusable >>
       ELSE IF escapeListener /\ ~desktop
         THEN /\ ToggleMenu(NoForce, desktop)
              /\ activeElement' = HamburgerButton
              /\ UNCHANGED keydownBound
         ELSE UNCHANGED << navExpanded, overflowY, buttonLabel, sectionExpanded,
                           escapeListener, focusoutListener, dropsFocusable,
                           activeElement, keydownBound >>
  /\ UNCHANGED << navPc, desktop, hlVars, pageVars, recVars, eventsVars,
                  comdVars >>

\* the focus moves to an element of the nav; a focusout inside the nav has
\* its relatedTarget in the nav, so closeOnFocusLost does nothing (line 27)
FocusMoves ==
  /\ phase = "nav"
  /\ navPc = "done"
  /\ \E target \in {HamburgerButton}
                     \cup {SectionLink(s) : s \in NavSections}
                     \cup {SectionItem(s) : s \in IF dropsFocusable THEN NavDrops ELSE {}} :
       /\ target # activeElement
       /\ activeElement' = target
       /\ keydownBound' = FocusNavSection(target)
  /\ navLast' = Ran("focus", 0, FALSE)
  /\ UNCHANGED << navPc, desktop, navExpanded, overflowY, buttonLabel,
                  sectionExpanded, escapeListener, focusoutListener,
                  dropsFocusable, hlVars, pageVars, recVars, eventsVars,
                  comdVars >>

\* lines 25-38: the focus leaves the nav; closeOnFocusLost runs if it listens
FocusLeaves ==
  /\ phase = "nav"
  /\ navPc = "done"
  /\ activeElement # Outside
  /\ activeElement' = Outside
  /\ navLast' = Ran("focusout", 0, navExpanded)
  /\ IF focusoutListener /\ NavSectionExpanded # 0 /\ desktop
       THEN /\ sectionExpanded' = ToggleAllNavSections(sectionExpanded, "false")
            /\ UNCHANGED << navExpanded, overflowY, buttonLabel,
                            escapeListener, focusoutListener, dropsFocusable >>
       ELSE IF focusoutListener /\ ~desktop
         THEN ToggleMenu(<< FALSE >>, desktop)
         ELSE UNCHANGED << navExpanded, overflowY, buttonLabel, sectionExpanded,
                           escapeListener, focusoutListener, dropsFocusable >>
  /\ UNCHANGED << navPc, desktop, keydownBound,
                  hlVars, pageVars, recVars, eventsVars,
                  comdVars >>

\* lines 40-49: Enter or Space on a focused section that has openOnKeydown
EnterOrSpace ==
  /\ phase = "nav"
  /\ navPc = "done"
  /\ activeElement.kind = "li"
  /\ activeElement.section \in keydownBound
  /\ activeElement.section \in NavDrops
  /\ LET s == activeElement.section
         dropExpanded == sectionExpanded[s] = "true"
     IN /\ sectionExpanded' =
             [ToggleAllNavSections(sectionExpanded, DefaultExpanded)
                EXCEPT ![s] = IF dropExpanded THEN "false" ELSE "true"]
        /\ navLast' = Ran("activate", s, dropExpanded)
  /\ UNCHANGED << navPc, desktop, navExpanded, overflowY, buttonLabel,
                  escapeListener, focusoutListener, dropsFocusable, keydownBound,
                  activeElement, hlVars, pageVars, recVars, eventsVars,
                  comdVars >>

\* lines 274-280: a click on a section
SectionClick ==
  /\ phase = "nav"
  /\ navPc = "done"
  /\ \E s \in NavSections :
       LET expanded == sectionExpanded[s] = "true"
       IN /\ sectionExpanded' =
               IF desktop
                 THEN [ToggleAllNavSections(sectionExpanded, DefaultExpanded)
                         EXCEPT ![s] = IF expanded THEN "false" ELSE "true"]
                 ELSE sectionExpanded
          /\ navLast' = Ran(IF desktop THEN "activate" ELSE "click", s, expanded)
  /\ UNCHANGED << navPc, desktop, navExpanded, overflowY, buttonLabel,
                  escapeListener, focusoutListener, dropsFocusable, keydownBound,
                  activeElement, hlVars, pageVars, recVars, eventsVars,
                  comdVars >>

\* line 295: the viewport crosses the breakpoint and the change listener
\* runs toggleMenu(nav, navSections, isDesktop.matches); a focused section
\* that loses its tabindex may keep or lose the focus
BreakpointChange ==
  /\ phase = "nav"
  /\ navPc = "done"
  /\ desktop' = ~desktop
  /\ ToggleMenu(<< ~desktop >>, ~desktop)
  /\ navLast' = Ran("change", 0, navExpanded)
  /\ \/ UNCHANGED activeElement
     \/ /\ desktop
        /\ activeElement.kind = "li"
        /\ activeElement' = Outside
  /\ UNCHANGED << navPc, keydownBound, hlVars, pageVars, recVars, eventsVars,
                  comdVars >>

NextNav ==
  \/ DecorateNav
  \/ HamburgerClick
  \/ EscapePress
  \/ FocusMoves
  \/ FocusLeaves
  \/ EnterOrSpace
  \/ SectionClick
  \/ BreakpointChange

SpecNav == InitNav /\ [][NextNav]_vars

----------------------------------------------------------------------------
(* Claims about blocks/header *)

\* C24: after decorate and any hamburger clicks, Escape presses, focus
\* leaving the nav and breakpoint changes, body overflowY is 'hidden'
\* exactly when the viewport is below the desktop breakpoint and the nav has
\* aria-expanded 'true'.
C24_ScrollLock ==
  (phase = "nav" /\ navPc = "done") =>
    (overflowY = "hidden" <=> (~desktop /\ navExpanded))

\* a hamburger click has opened the menu on a mobile viewport and the page
\* is locked
C24_Witness ==
  /\ phase = "nav"
  /\ navPc = "done"
  /\ ~desktop
  /\ navExpanded
  /\ overflowY = "hidden"
  /\ navLast.kind = "hamburger"

\* the sections with aria-expanded 'true'
ExpandedSections == {s \in NavSections : sectionExpanded[s] = "true"}

\* C25: on a desktop viewport, after any section clicks, Enter/Space
\* activations, Escape presses and breakpoint changes, at most one section
\* has aria-expanded 'true'; activating a collapsed section leaves it the
\* only expanded one, and activating the expanded section leaves none.
C25_OneSection ==
  (phase = "nav" /\ navPc = "done" /\ desktop) =>
    /\ Cardinality(ExpandedSections) <= 1
    /\ (navLast.kind = "activate" /\ ~navLast.expanded) =>
         ExpandedSections = {navLast.section}
    /\ (navLast.kind = "activate" /\ navLast.expanded) =>
         ExpandedSections = {}

\* Enter or Space on the focused collapsed section has expanded it
C25_Witness ==
  /\ phase = "nav"
  /\ navPc = "done"
  /\ desktop
  /\ navLast.kind = "activate"
  /\ ~navLast.expanded
  /\ activeElement = SectionItem(navLast.section)
  /\ sectionExpanded[navLast.section] = "true"

\* C26: on a mobile viewport, an Escape keypress or the focus leaving the
\* nav never takes the nav from collapsed to expanded, whatever hamburger
\* clicks and breakpoint changes came before: after either of them the nav
\* is collapsed, whether it was collapsed or expanded before.
C26_OnlyCloses ==
  (/\ phase = "nav"
   /\ navPc = "done"
   /\ navLast.kind \in {"escape", "focusout"}
   /\ ~navLast.desktop) =>
    /\ ~navLast.expanded => ~navExpanded
    /\ navLast.expanded => ~navExpanded

\* Escape was pressed on a mobile viewport with the menu collapsed, after
\* the menu had been open before (the hamburger button has the focus Escape
\* gave it)
C26_Witness ==
  /\ phase = "nav"
  /\ navPc = "done"
  /\ navLast.kind = "escape"
  /\ ~navLast.desktop
  /\ ~navLast.expanded
  /\ ~navExpanded
  /\ activeElement = HamburgerButton

----------------------------------------------------------------------------
(* blocks/comd-resources, blocks/comd-roles, blocks/comd-events: decorate   *)
(* and the functions it calls.  Line numbers are those of comd-resources    *)
(* unless another block is named.                                           *)

\* the longest data array of a payload
MaxRecords == 2

\* window.location.origin, one symbol of an address
Origin == << "https://host" >>

\* an address new URL() rejects
BadUrl == << "/", "/" >>

StartsWith(s, prefix) ==
  Len(prefix) <= Len(s) /\ SubSeq(s, 1, Len(prefix)) = prefix

\* lines 1-10: the path and query of the address, resolved against the origin
ToRelativeUrl(input) ==
  IF input = Missing \/ input = << >> THEN << >>
  ELSE IF input = BadUrl THEN input
  ELSE IF StartsWith(input, Origin)
    THEN IF Len(input) = Len(Origin) THEN << "/" >>
         ELSE SubSeq(input, Len(Origin) + 1, Len(input))
  ELSE IF Head(input) = "/" THEN input
  ELSE << "/" >> \o input

UpperLetters == << "A", "B", "C", "L", "M" >>

LowerLetters == << "a", "b", "c", "l", "m" >>

\* String.prototype.toLowerCase on the characters of the payloads
LowerCase(c) ==
  IF \E i \in 1..Len(UpperLetters) : UpperLetters[i] = c
    THEN LowerLetters[CHOOSE i \in 1..Len(UpperLetters) : UpperLetters[i] = c]
    ELSE c

\* [a-z0-9]
IsAlnum(c) ==
  \/ IsDigit(c)
  \/ c \in {"a", "b", "c", "d", "e", "f", "g", "h", "i", "j", "k", "l", "m",
            "n", "o", "p", "q", "r", "s", "t", "u", "v", "w", "x", "y", "z"}

RECURSIVE DropNonAlnum(_)
DropNonAlnum(s) ==
  IF s # << >> /\ ~IsAlnum(Head(s)) THEN DropNonAlnum(Tail(s)) ELSE s

\* .replace(/[^a-z0-9]+/g, '-')
RECURSIVE Dashed(_)
Dashed(s) ==
  IF s = << >> THEN << >>
  ELSE IF IsAlnum(Head(s)) THEN << Head(s) >> \o Dashed(Tail(s))
  ELSE << "-" >> \o Dashed(DropNonAlnum(Tail(s)))

\* .replace(/(^-|-$)/g, '')
StripDashes(s) ==
  LET t == IF s # << >> /\ Head(s) = "-" THEN Tail(s) ELSE s
  IN IF t # << >> /\ t[Len(t)] = "-" THEN SubSeq(t, 1, Len(t) - 1) ELSE t

\* lines 12-19
NormalizeKey(value) ==
  LET text == Trim(OrEmpty(value))
  IN StripDashes(Dashed([i \in 1..Len(text) |-> LowerCase(text[i])]))

\* an entry of the data array; isNull marks a JSON null
Record(name, role, date, title) ==
  [isNull |-> FALSE, name |-> name, role |-> role, date |-> date, title |-> title]

NullRecord ==
  [isNull |-> TRUE, name |-> Missing, role |-> Missing, date |-> Missing, title |-> 0]

\* the outcome of a step that may throw
Threw == [threw |-> TRUE, value |-> << >>]

Returned(value) == [threw |-> FALSE, value |-> value]

\* lines 21-32 (resolveCommunityResources, resolveCommunityRoles,
\* resolveCommunityEvents): reading entry.name of a null entry throws
Resolve(records, queryName) ==
  IF records = << >> THEN Returned(<< >>)
  ELSE IF queryName = Missing \/ queryName = << >> THEN Returned(records)
  ELSE IF \E i \in 1..Len(records) : records[i].isNull THEN Threw
  ELSE LET normalizedQuery == NormalizeKey(queryName)
           Matches(entry) ==
             LET key == NormalizeKey(entry.name)
             IN \/ key = normalizedQuery
                \/ StartsWith(key, normalizedQuery)
                \/ StartsWith(normalizedQuery, key)
       IN Returned(SelectSeq(records, Matches))

\* the text "Infinity", one symbol
InfinityText == << "Infinity" >>

\* Number.MIN_SAFE_INTEGER, the least value of the model
MinSafeInteger == -2147483647

\* Number("Infinity"), the greatest value of the model
PositiveInfinity == 2147483647

\* Number(value) for the date cells of the payloads
NumberOf(value) ==
  IF value = InfinityText THEN [isNaN |-> FALSE, num |-> PositiveInfinity]
  ELSE ToNumber(value)

\* lines 34-41: a text that is no number is no date either
ParseDateValue(value) ==
  IF value = Missing \/ value = << >> THEN MinSafeInteger
  ELSE IF ~NumberOf(value).isNaN THEN NumberOf(value).num
  ELSE MinSafeInteger

\* comd-roles lines 34-39
RoleRank(role) ==
  LET normalized == NormalizeKey(role)
  IN IF \/ Includes(normalized, << "c", "o", "m", "m", "u", "n", "i", "t", "y",
                                    "-", "l", "e", "a", "d" >>)
        \/ normalized = << "l", "e", "a", "d" >>
       THEN 0
     ELSE IF \/ Includes(normalized, << "c", "o", "-", "l", "e", "a", "d" >>)
             \/ Includes(normalized, << "c", "o", "l", "e", "a", "d" >>)
       THEN 1
     ELSE 2

\* a child of the block: its tag, its class (comd-<kind>-<part>) and, for a
\* grid or list, its cards
Child(tag, kind, part, items) ==
  [tag |-> tag, kind |-> kind, part |-> part, items |-> items]

Card(record, badge) == [title |-> record.title, badge |-> badge]

\* lines 70-100 after the payload is read: the children decorate appends, or
\* a throw; every property read of a null entry throws
RenderCards(kind, records, queryName, key) ==
  LET resolved == Resolve(records, queryName)
  IN IF resolved.threw THEN Threw
     ELSE LET list == resolved.value
              hasNull == \E i \in 1..Len(list) : list[i].isNull
          IN IF Len(list) >= 2 /\ hasNull THEN Threw   \* in the comparator
             ELSE IF list = << >> THEN Returned(<< >>)
             ELSE IF hasNull THEN Threw                \* in the card
             ELSE LET filtered ==
                        SortedByKey(list, [i \in 1..Len(list) |-> key[list[i]]])
                  IN Returned(<< Child("h2", kind, "heading", << >>),
                                 Child("div", kind, "grid",
                                       [i \in 1..Len(filtered) |->
                                          Card(filtered[i], "")]) >>)

\* lines 87-100: latest date first
RenderResources(records, queryName) ==
  RenderCards("resources", records, queryName,
              [r \in Range(records) |-> 0 - ParseDateValue(r.date)])

\* comd-roles lines 73-86: leads first
RenderRoles(records, queryName) ==
  RenderCards("roles", records, queryName,
              [r \in Range(records) |-> RoleRank(r.role)])

\* today, as the serial number of the day
CdToday == 2

\* comd-events lines 21-31: a number is the serial number of a day, and one
\* out of the range of Date gives an Invalid Date; other texts are no dates
ParseSheetDate(value) ==
  IF value = Missing \/ value = << >> THEN [isNull |-> TRUE, valid |-> FALSE, day |-> 0]
  ELSE IF ~NumberOf(value).isNaN
    THEN [isNull |-> FALSE, valid |-> value # InfinityText, day |-> NumberOf(value).num]
  ELSE [isNull |-> TRUE, valid |-> FALSE, day |-> 0]

\* comd-events lines 33-39
IsSameOrFuture(date) == ~date.isNull /\ date.valid /\ date.day >= CdToday

\* date?.getTime() || 0, in days
TimeOrZero(date) == IF date.isNull \/ ~date.valid THEN 0 ELSE date.day - EpochSerial

\* comd-events lines 74-105: Intl.DateTimeFormat.format throws on an
\* Invalid Date
CreateEventItemThrows(event) ==
  event.isNull \/ (~ParseSheetDate(event.date).isNull /\ ~ParseSheetDate(event.date).valid)

\* comd-events lines 124-150
RenderEvents(records, queryName) ==
  LET resolved == Resolve(records, queryName)
  IN IF resolved.threw THEN Threw
     ELSE LET filtered == resolved.value
              heading == Child("h2", "events", "heading", << >>)
          IN IF filtered = << >>
               THEN Returned(<< heading, Child("p", "events", "empty", << >>) >>)
             ELSE IF \E i \in 1..Len(filtered) : CreateEventItemThrows(filtered[i])
               THEN Threw
             ELSE LET Upcoming(e) == IsSameOrFuture(ParseSheetDate(e.date))
                      Past(e) == ~Upcoming(e)
                      up == SelectSeq(filtered, Upcoming)
                      pa == SelectSeq(filtered, Past)
                      upcoming ==
                        SortedByKey(up, [i \in 1..Len(up) |->
                                           TimeOrZero(ParseSheetDate(up[i].date))])
                      past ==
                        SortedByKey(pa, [i \in 1..Len(pa) |->
                                           0 - TimeOrZero(ParseSheetDate(pa[i].date))])
                  IN Returned(<< heading,
                                 Child("div", "events", "list",
                                       [i \in 1..Len(upcoming) |-> Card(upcoming[i], "UPCOMING")]
                                       \o [i \in 1..Len(past) |-> Card(past[i], "PAST")]) >>)

Render(kind, records, queryName) ==
  CASE kind = "resources" -> RenderResources(records, queryName)
    [] kind = "roles" -> RenderRoles(records, queryName)
    [] kind = "events" -> RenderEvents(records, queryName)

\* line 74 left out
EmptyBlockNone(children) == children

\* line 74: block.textContent = ''
EmptyBlock(children) == << >>

\* what the server holds: no JSON, or a JSON value with or without a data array
InvalidJson == [json |-> "invalid", isArray |-> FALSE, data |-> << >>]

Payload(isArray, data) == [json |-> "value", isArray |-> isArray, data |-> data]

\* line 85
RecordsOf(payload) == IF payload.isArray THEN payload.data ELSE << >>

CdRecords ==
  { Record(<< "a" >>, << "L", "e", "a", "d" >>, << "3" >>, 1),
    Record(<< "A", " ", "b" >>, << "C", "o", "-", "L", "e", "a", "d" >>, << "1" >>, 2),
    Record(<< "b" >>, << "M" >>, Missing, 3),
    Record(Missing, << "C", "o", "m", "m", "u", "n", "i", "t", "y", " ",
                       "L", "e", "a", "d" >>, InfinityText, 4),
    NullRecord }

CdBodies ==
  {InvalidJson, Payload(FALSE, << >>)}
    \cup {Payload(TRUE, data) : data \in SeqsUpTo(CdRecords, MaxRecords)}

CdSources ==
  {Missing, << " " >>, << "/", "a" >>, Origin \o << "/", "a" >>, BadUrl}

CdQueries == {Missing, << "a" >>, << "A", "-", "B" >>}

\* the authored block: one row with the source cell, or a row without a cell
InitComd ==
  /\ NoHighlighter
  /\ phase = "comd"
  /\ NoTimers
  /\ NoRecordings
  /\ NoEvents
  /\ NoNav
  /\ cdKind \in {"resources", "roles", "events"}
  /\ cdPc = "start"
  /\ cdSource \in CdSources
  /\ cdQuery \in CdQueries
  /\ cdBody \in CdBodies
  /\ cdChildren = << Child("div", cdKind, "row", << >>) >>
  /\ cdSettled = "pending"
  /\ cdFailure = "none"

\* lines 101-106: a throw inside the try block is caught and the fallback
\* paragraph appended; outside of it the promise of decorate rejects
Catch(inTry, failure) ==
  /\ cdPc' = "done"
  /\ cdFailure' = failure
  /\ IF inTry
       THEN /\ cdChildren' = Append(cdChildren, Child("p", cdKind, "error", << >>))
            /\ cdSettled' = "fulfilled"
       ELSE /\ cdSettled' = "rejected"
            /\ UNCHANGED cdChildren

\* lines 70-78: the source is read, the block emptied and the fetch started
DecorateComd ==
  /\ phase = "comd"
  /\ cdPc = "start"
  /\ LET source == IF cdSource = Missing THEN Missing ELSE Trim(cdSource)
         relativeSource == ToRelativeUrl(source)
     IN /\ cdChildren' = EmptyBlock(cdChildren)
        /\ IF relativeSource = << >>
             THEN cdPc' = "done" /\ cdSettled' = "fulfilled"
             ELSE cdPc' = "fetching" /\ UNCHANGED cdSettled
  /\ UNCHANGED << cdKind, cdSource, cdQuery, cdBody, cdFailure,
                  hlVars, pageVars, recVars, eventsVars, navVars >>

\* line 78: the fetch rejects
FetchRejects ==
  /\ phase = "comd"
  /\ cdPc = "fetching"
  /\ Catch(TRUE, "rejected")
  /\ UNCHANGED << cdKind, cdSource, cdQuery, cdBody,
                  hlVars, pageVars, recVars, eventsVars, navVars >>

\* lines 78-84: the fetch answers; a status that is not OK throws
FetchResponds ==
  /\ phase = "comd"
  /\ cdPc = "fetching"
  /\ \E ok \in BOOLEAN :
       IF ok
         THEN /\ cdPc' = "json"
              /\ UNCHANGED << cdChildren, cdSettled, cdFailure >>
         ELSE Catch(TRUE, "not-ok")
  /\ UNCHANGED << cdKind, cdSource, cdQuery, cdBody,
                  hlVars, pageVars, recVars, eventsVars, navVars >>

\* lines 84-106: response.json() settles and the rest of decorate runs
JsonSettles ==
  /\ phase = "comd"
  /\ cdPc = "json"
  /\ IF cdBody.json = "invalid" THEN Catch(TRUE, "invalid-json")
     ELSE LET appended == Render(cdKind, RecordsOf(cdBody), cdQuery)
          IN IF appended.threw THEN Catch(TRUE, "threw")
             ELSE /\ cdPc' = "done"
                  /\ cdChildren' = cdChildren \o appended.value
                  /\ cdSettled' = "fulfilled"
                  /\ cdFailure' = "loaded"
  /\ UNCHANGED << cdKind, cdSource, cdQuery, cdBody,
                  hlVars, pageVars, recVars, eventsVars, navVars >>

NextComd ==
  \/ DecorateComd
  \/ FetchRejects
  \/ FetchResponds
  \/ JsonSettles

SpecComd == InitComd /\ [][NextComd]_vars

----------------------------------------------------------------------------
(* Claims about the community-detail blocks *)

\* C27: in each community-detail block the block is empty while the fetch
\* is under way, and when the fetch rejected, answered with a status that is
\* not OK or answered with invalid JSON, the block ends with exactly one
\* child, the error paragraph of the block, and no heading or card; the
\* promise of decorate never rejects.
C27_Fallback ==
  (phase = "comd") =>
    /\ cdPc \in {"fetching", "json"} => cdChildren = << >>
    /\ (cdPc = "done" /\ cdFailure \in {"rejected", "not-ok", "invalid-json"}) =>
         /\ Len(cdChildren) = 1
         /\ cdChildren[1].tag = "p"
         /\ cdChildren[1].part = "error"
         /\ cdChildren[1].kind = cdKind
         /\ cdSettled = "fulfilled"
    /\ cdSettled # "rejected"

\* the server of a comd-events block answered with invalid JSON
C27_Witness ==
  /\ phase = "comd"
  /\ cdKind = "events"
  /\ cdPc = "done"
  /\ cdFailure = "invalid-json"
  /\ cdSettled = "fulfilled"
  /\ Len(cdChildren) = 1

====
